---- MODULE Spec2Model ----
(***************************************************************************)
(* RStream: TCP audio streaming (server streams a WAV file, client saves   *)
(* it and/or plays it in real time).                                       *)
(*                                                                         *)
(* Five specifications share this module:                                  *)
(*   SpecPB  the real-time playback sink CpalFileWrite (audio/cpal.rs):    *)
(*           producer write()/finalize()/update_format() against the       *)
(*           audio callback built by build_stream.                         *)
(*   Spec    one client/server session over a TCP byte stream              *)
(*           (client/client_manager.rs, server/server_manager.rs,          *)
(*           network/file.rs, protocol.rs, audio/wav.rs).                  *)
(*   SpecCodec  the header conversions and decoders of protocol.rs         *)
(*           applied on their own to a range of values.                    *)
(*   SpecWav the WAV sink WavFileWrite and the WAV reader WavFileRead      *)
(*           (audio/wav.rs), each called on its own.                       *)
(*   SpecRun Server::run: several accepted connections, each with its      *)
(*           spawned handler (server/server_manager.rs).                   *)
(***************************************************************************)
EXTENDS Integers, Sequences, FiniteSets, TLC

\* ------------------------------------------------------------------ bounds
\* Most write() calls of one playback sink.
MaxWrites == 2
\* Longest slice passed to one write().
MaxWriteLen == 4
\* Most frames the device asks for in one callback invocation.
MaxCbFrames == 2
\* Most update_format() calls on one playback sink.
MaxUpdates == 2

\* ------------------------------------------------------------ small helpers
Min(a, b) == IF a < b THEN a ELSE b

DropN(s, n) == SubSeq(s, n + 1, Len(s))

TakeN(s, n) == SubSeq(s, 1, Min(n, Len(s)))

\* ===========================================================================
\* Sample decoding (cpal.rs build_stream, lines 299-319)
\* ===========================================================================

\* i16::from_le_bytes
I16FromLe(b) ==
    LET u == b[1] + 256 * b[2]
    IN IF u >= 32768 THEN u - 65536 ELSE u

\* i32::from_le_bytes. The top byte is taken signed first so that the value
\* stays inside the 32-bit range.  f32::from_le_bytes is a bit-for-bit
\* reinterpretation: an f32 sample is represented by its bit pattern, read as
\* the same 32-bit integer.
I32FromLe(b) ==
    LET hi == IF b[4] >= 128 THEN b[4] - 256 ELSE b[4]
    IN b[1] + 256 * b[2] + 65536 * b[3] + 16777216 * hi

\* cpal::Sample::EQUILIBRIUM for i16, i32 (0) and f32 (0.0, bit pattern 0).
EQUILIBRIUM == 0

\* The value the callback stores for one sample: `match sample_size`.
DecodeSample(bytes, sample_size) ==
    IF sample_size = 2 THEN I16FromLe(bytes)
    ELSE IF sample_size = 4 THEN I32FromLe(bytes)
    ELSE EQUILIBRIUM

\* The reverse of a sequence.
Reverse(b) == [i \in DOMAIN b |-> b[Len(b) + 1 - i]]

\* The chunks of write() (mutant: each chunk is decoded with from_be_bytes).
RECURSIVE DecodeAllBe(_, _)
DecodeAllBe(bytes, size) ==
    IF size = 0 \/ Len(bytes) < size THEN << >>
    ELSE << DecodeSample(Reverse(SubSeq(bytes, 1, size)), size) >>
         \o DecodeAllBe(SubSeq(bytes, size + 1, Len(bytes)), size)

\* `data.chunks(size)` with the short last chunk left out, each chunk decoded
\* with from_le_bytes (wav.rs lines 151-177).
RECURSIVE DecodeAllLe(_, _)
DecodeAllLe(bytes, size) ==
    IF size = 0 \/ Len(bytes) < size THEN << >>
    ELSE << DecodeSample(SubSeq(bytes, 1, size), size) >>
         \o DecodeAllLe(DropN(bytes, size), size)

\* ===========================================================================
\* Playback sink: CpalFileWrite
\* ===========================================================================
VARIABLES
    buf,          \* Arc<Mutex<VecDeque<u8>>>: the shared byte queue
    first_play,   \* AtomicBool first_play
    stream,       \* Option<cpal::Stream>: "none" | "playing"
    cfg,          \* what build_stream captured: channels, sample_size
    header,       \* Option<AudioHeader>: a format record or NoHeader
    notified,     \* the callback's one-shot flag
    play_done,    \* signals waiting in the mpsc channel play_done_tx/rx
    wpc,          \* position of the producer task: "idle" | "append" | "finalize"
    wdata,        \* the slice of the write() call in progress
    pushed,       \* history: every byte write() appended, in order
    played,       \* history: every byte the callback popped, in order
    out,          \* history: samples the callback produced from queued bytes
    frames,       \* history: the frames of the latest callback invocation
    sig_total,    \* history: signals the callback ever sent
    cycles,       \* history: times the queue went from non-empty to empty
    nwrites,      \* write() calls so far
    nupdates,     \* update_format() calls so far
    fin_left,     \* bytes left in the queue when finalize() last returned, or -1
    last_ret      \* result of the latest producer call: "none" | "ok" | "err"

pbvars == << buf, first_play, stream, cfg, header, notified, play_done, wpc,
             wdata, pushed, played, out, frames, sig_total, cycles, nwrites,
             nupdates, fin_left, last_ret >>

\* The state of one session (ClientInterface, Server::client_handler and the
\* TCP connection between them); a sink used on its own leaves it alone.
VARIABLES
    c_kind,     \* "client" (ClientInterface) | "raw"
    s_kind,     \* "server" (Server::client_handler) | "raw"
    src,        \* the WAV file at file_path, as found when first opened
    c_sinks,    \* audio_capabilities, in registration order
    c2s,        \* bytes written by the client side, not yet read by the server
    s2c,        \* bytes written by the server side, not yet read by the client
    c_open,     \* the client side still holds its socket
    s_open,     \* the server side still holds its socket
    s_pc,       \* position of the server handler
    s_pos,      \* samples WavFileRead has delivered
    s_log,      \* history: what the handler read and wrote, in order
    c_pc,       \* position of the client
    c_fbuf,     \* bytes FramedRead has read and not yet decoded
    wav,        \* the WavFileWrite sink: state, spec, samples of the output file
    c_play,     \* the CpalFileWrite sink of the session: header, stream, bytes
    c_hdr,      \* the AudioHeader the client decoded
    c_log,      \* history: what the client read, wrote and did, in order
    raw_left,   \* messages the raw peer may still write
    raw_sent    \* history: every byte the raw server has written, in order

svars == << c_kind, s_kind, src, c_sinks, c2s, s2c, c_open, s_open, s_pc,
            s_pos, s_log, c_pc, c_fbuf, wav, c_play, c_hdr, c_log, raw_left,
            raw_sent >>

\* The header conversions of protocol.rs applied on their own: the value a
\* conversion is applied to and what it returned.
VARIABLES
    k_in,       \* a WAV spec (hound::WavSpec) or AudioHeader
    k_out       \* the conversion applied, its input bytes and its outcome

kvars == << k_in, k_out >>

\* The connections Server::run has accepted, each with its spawned handler.
VARIABLES
    conns,      \* per connection: the peer's messages, how many the handler
                \* has read, the handler's steps, the handler's state and
                \* whether its task is still there
    listener    \* Server::run: "accepting" in its loop, "failed" once accept()
                \* has returned Err; "none" where Server::run is not run

rvars == << conns, listener >>

vars == << pbvars, svars, kvars, rvars >>

constv == << c_kind, s_kind, src, c_sinks >>

servv == << s_open, s_pc, s_pos, s_log >>

cliv == << c_open, c_pc, c_fbuf, wav, c_play, c_hdr, c_log >>

NoHeader == [sample_rate |-> 0, channels |-> 0, bits_per_sample |-> 0,
             sample_format |-> "None"]

NoCfg == [channels |-> 0, sample_size |-> 0]

\* Formats the header of a playback sink is drawn from: the supported matrix
\* with one or two channels, and one unsupported depth.
PlaybackFormats ==
    { [sample_rate |-> 8000, channels |-> c, bits_per_sample |-> 16,
       sample_format |-> "Int"] : c \in {1, 2} }
    \cup { [sample_rate |-> 8000, channels |-> 1, bits_per_sample |-> 32,
            sample_format |-> f] : f \in {"Int", "Float"} }
    \cup { [sample_rate |-> 8000, channels |-> 1, bits_per_sample |-> 8,
            sample_format |-> "Int"] }

\* The bytes of one write(): n bytes, pairwise distinct, continuing the byte
\* pattern of the writes before it (start bytes were pushed before).
WriteData(n, start) ==
    [i \in 1..n |-> (11 + 37 * (start + i)) % 256]

\* play_audio_from_buf, lines 244-254: the sample type the stream is built
\* for; 0 stands for the Err("Unsupported bits per sample") branch.
SampleSizeOf(h) ==
    IF h.sample_format = "Int" /\ h.bits_per_sample = 16 THEN 2
    ELSE IF h.sample_format = "Int" /\ h.bits_per_sample = 32 THEN 4
    ELSE IF h.sample_format = "Float" /\ h.bits_per_sample = 32 THEN 4
    ELSE 0

\* extract_bytes_from_buf, lines 257-266 (mutant: pops from the back).
ExtractBytesBack(b, sample_size) ==
    [bytes |-> [i \in 1..sample_size |-> b[Len(b) + 1 - i]],
     rest  |-> SubSeq(b, 1, Len(b) - sample_size)]

\* extract_bytes_from_buf: sample_size pop_front() calls, in order.
ExtractBytesFromBuf(b, sample_size) ==
    [bytes |-> SubSeq(b, 1, sample_size), rest |-> DropN(b, sample_size)]

\* The `if buf.len() >= frame_size` branch: one sample per channel.
RECURSIVE FillFrame(_, _, _)
FillFrame(b, n, sample_size) ==
    IF n = 0 THEN [samples |-> << >>, taken |-> << >>, rest |-> b]
    ELSE LET e == ExtractBytesFromBuf(b, sample_size)
             r == FillFrame(e.rest, n - 1, sample_size)
         IN [samples |-> << DecodeSample(e.bytes, sample_size) >> \o r.samples,
             taken   |-> e.bytes \o r.taken,
             rest    |-> r.rest]

\* The else branch (mutant: the underrun eats what is queued).
UnderrunFrameEats(b, channels) ==
    [samples |-> [i \in 1..channels |-> EQUILIBRIUM], taken |-> b, rest |-> << >>]

\* The else branch, lines 322-326: silence, the queue untouched.
UnderrunFrame(b, channels) ==
    [samples |-> [i \in 1..channels |-> EQUILIBRIUM], taken |-> << >>, rest |-> b]

\* Line 328: `buf.is_empty() && !notified`.
MaySignal(b, flag) == b = << >> /\ ~flag

\* One iteration of `for frame in output.chunks_mut(channels)`, lines 294-332.
\* st carries the queue, the flag and the histories through the invocation.
ProcessFrame(st, c) ==
    LET frame_size == c.channels * c.sample_size
        has  == Len(st.buf) >= frame_size
        r    == IF has THEN FillFrame(st.buf, c.channels, c.sample_size)
                ELSE UnderrunFrame(st.buf, c.channels)
        fire == MaySignal(r.rest, st.notified)
    IN [buf      |-> r.rest,
        notified |-> st.notified \/ fire,
        sent     |-> st.sent + (IF fire THEN 1 ELSE 0),
        played   |-> st.played \o r.taken,
        out      |-> st.out \o (IF has THEN r.samples ELSE << >>),
        cycles   |-> st.cycles
                     + (IF st.buf # << >> /\ r.rest = << >> THEN 1 ELSE 0),
        frames   |-> Append(st.frames,
                        [before  |-> Len(st.buf),
                         after   |-> Len(r.rest),
                         need    |-> frame_size,
                         samples |-> r.samples,
                         signal  |-> fire])]

RECURSIVE RunFrames(_, _, _)
RunFrames(st, c, n) ==
    IF n = 0 THEN st ELSE RunFrames(ProcessFrame(st, c), c, n - 1)

\* buf.extend(data), line 353 (mutant: the first byte is lost).
ExtendDropsFirst(b, data) == b \o Tail(data)

ExtendBuf(b, data) == b \o data

PBInit ==
    /\ buf = << >>
    /\ first_play = TRUE
    /\ stream = "none"
    /\ cfg = NoCfg
    /\ header = NoHeader
    /\ notified = FALSE
    /\ play_done = 0
    /\ wpc = "idle"
    /\ wdata = << >>
    /\ pushed = << >>
    /\ played = << >>
    /\ out = << >>
    /\ frames = << >>
    /\ sig_total = 0
    /\ cycles = 0
    /\ nwrites = 0
    /\ nupdates = 0
    /\ fin_left = -1
    /\ last_ret = "none"

\* update_format, lines 368-371: stores the header, always Ok.
UpdateFormat ==
    /\ wpc = "idle"
    /\ nupdates < MaxUpdates
    /\ \E h \in PlaybackFormats :
          /\ header' = h
          /\ nupdates' = nupdates + 1
          /\ last_ret' = "ok"
    /\ UNCHANGED << buf, first_play, stream, cfg, notified, play_done, wpc,
                    wdata, pushed, played, out, frames, sig_total, cycles,
                    nwrites, fin_left >>
    /\ UNCHANGED << svars, kvars, rvars >>

\* write(), lines 344-351: on the first call the stream is built and started
\* (play_audio_from_buf, stream.play()); a failure returns before first_play
\* is cleared and before anything is queued.  The queue is appended to in a
\* second step (WriteAppend): the callback may run in between.
WriteCall ==
    /\ wpc = "idle"
    /\ nwrites < MaxWrites
    /\ \E n \in 1..MaxWriteLen :
        LET data == WriteData(n, Len(pushed)) IN
        /\ nwrites' = nwrites + 1
        /\ IF first_play
           THEN IF header = NoHeader \/ SampleSizeOf(header) = 0
                THEN /\ last_ret' = "err"
                     /\ UNCHANGED << first_play, stream, cfg, wpc, wdata >>
                ELSE /\ stream' = "playing"
                     /\ cfg' = [channels |-> header.channels,
                                sample_size |-> SampleSizeOf(header)]
                     /\ first_play' = FALSE
                     /\ wpc' = "append"
                     /\ wdata' = data
                     /\ UNCHANGED last_ret
           ELSE /\ wpc' = "append"
                /\ wdata' = data
                /\ UNCHANGED << first_play, stream, cfg, last_ret >>
    /\ UNCHANGED << buf, header, notified, play_done, pushed, played, out,
                    frames, sig_total, cycles, nupdates, fin_left >>
    /\ UNCHANGED << svars, kvars, rvars >>

\* write(), lines 352-354: lock, extend, Ok.
WriteAppend ==
    /\ wpc = "append"
    /\ buf' = ExtendBuf(buf, wdata)
    /\ pushed' = pushed \o wdata
    /\ wpc' = "idle"
    /\ wdata' = << >>
    /\ last_ret' = "ok"
    /\ UNCHANGED << first_play, stream, cfg, header, notified, play_done, out,
                    played, frames, sig_total, cycles, nwrites, nupdates,
                    fin_left >>
    /\ UNCHANGED << svars, kvars, rvars >>

\* One invocation of the output callback, lines 292-333.  The lock is taken
\* once for the whole invocation, so the invocation is one step.
Callback ==
    /\ stream = "playing"
    /\ \E n \in 1..MaxCbFrames :
        LET st0 == [buf |-> buf, notified |-> notified, sent |-> 0,
                    played |-> played, out |-> out, cycles |-> cycles,
                    frames |-> << >>]
            st  == RunFrames(st0, cfg, n)
        IN /\ buf' = st.buf
           /\ notified' = st.notified
           /\ play_done' = play_done + st.sent
           /\ sig_total' = sig_total + st.sent
           /\ played' = st.played
           /\ out' = st.out
           /\ cycles' = st.cycles
           /\ frames' = st.frames
    /\ UNCHANGED << first_play, stream, cfg, header, wpc, wdata, pushed,
                    nwrites, nupdates, fin_left, last_ret >>
    /\ UNCHANGED << svars, kvars, rvars >>

\* finalize(), line 358: the producer task enters play_done_rx.recv().
FinalizeCall ==
    /\ wpc = "idle"
    /\ wpc' = "finalize"
    /\ UNCHANGED << buf, first_play, stream, cfg, header, notified, play_done,
                    wdata, pushed, played, out, frames, sig_total, cycles,
                    nwrites, nupdates, fin_left, last_ret >>
    /\ UNCHANGED << svars, kvars, rvars >>

\* finalize(), lines 358-365: recv() returns one signal, the stream is paused
\* and dropped.
FinalizeReturn ==
    /\ wpc = "finalize"
    /\ play_done > 0
    /\ play_done' = play_done - 1
    /\ stream' = "none"
    /\ wpc' = "idle"
    /\ fin_left' = Len(buf)
    /\ last_ret' = "ok"
    /\ UNCHANGED << buf, first_play, cfg, header, notified, wdata, pushed,
                    played, out, frames, sig_total, cycles, nwrites, nupdates >>
    /\ UNCHANGED << svars, kvars, rvars >>

PBNext ==
    \/ UpdateFormat
    \/ WriteCall
    \/ WriteAppend
    \/ Callback
    \/ FinalizeCall
    \/ FinalizeReturn


\* ===========================================================================
\* Protocol codec (protocol.rs), bincode standard configuration: integers
\* wider than a byte are variable-length, little endian; an enum is its
\* variant index as a variable-length u32.
\* ===========================================================================

\* enum MessageType, lines 17-24: variant indices.
MsgHello == 0
MsgOk == 1
MsgBye == 2
MsgStartPlaying == 3
MsgStopPlaying == 4
MsgAudioHeader == 5

\* Stands for Option::None where a MessageType is expected.
MsgNone == 0 - 1

\* PROTOCOL_MAGIC = 0xA1B2C3D4 (line 14), as its four little-endian bytes.
PROTOCOL_MAGIC == << 212, 195, 178, 161 >>

\* ProtocolInfo::new, line 41.
VERSION == 1

\* The encoding with the one-byte form used for every value of a byte
\* (mutant): 251..255 collide with the width markers.
VarintU32ByteWide(v) ==
    IF v < 256 THEN << v >>
    ELSE IF v < 65536 THEN << 251, v % 256, v \div 256 >>
    ELSE << 252, v % 256, (v \div 256) % 256, (v \div 65536) % 256,
            v \div 16777216 >>

\* bincode varint encoding of a u32 below 2^31.
VarintU32(v) ==
    IF v < 251 THEN << v >>
    ELSE IF v < 65536 THEN << 251, v % 256, v \div 256 >>
    ELSE << 252, v % 256, (v \div 256) % 256, (v \div 65536) % 256,
            v \div 16777216 >>

\* bincode varint decoding of a u32 from the front of b.  A value whose top
\* bit is set does not fit the model's integers and is reported as ok with
\* val = -1 (no format of the model has such a sample rate).
DecodeU32(b) ==
    IF b = << >> THEN [ok |-> FALSE, val |-> 0, rest |-> << >>]
    ELSE IF b[1] < 251 THEN [ok |-> TRUE, val |-> b[1], rest |-> Tail(b)]
    ELSE IF b[1] = 251 THEN
        IF Len(b) < 3 THEN [ok |-> FALSE, val |-> 0, rest |-> << >>]
        ELSE [ok |-> TRUE, val |-> b[2] + 256 * b[3], rest |-> DropN(b, 3)]
    ELSE IF b[1] = 252 THEN
        IF Len(b) < 5 THEN [ok |-> FALSE, val |-> 0, rest |-> << >>]
        ELSE [ok |-> TRUE,
              val |-> IF b[5] >= 128 THEN -1
                      ELSE b[2] + 256 * b[3] + 65536 * b[4] + 16777216 * b[5],
              rest |-> DropN(b, 5)]
    ELSE [ok |-> FALSE, val |-> 0, rest |-> << >>]

\* make_client_hello_message, lines 120-126: the magic as a varint u32 (marker
\* 252 and four bytes), then `MessageType::Hello as u8`.
MakeClientHelloMessage == << 252 >> \o PROTOCOL_MAGIC \o << MsgHello >>

\* check_client_hello_message, lines 132-146: the length is that of
\* make_client_hello_message's output, the magic is decoded from `&data[0..4]`
\* and compared with PROTOCOL_MAGIC (here by their encodings, the encoding
\* being one-to-one), the type is `data[4]`.
CheckClientHelloMessage(data) ==
    /\ Len(data) = Len(MakeClientHelloMessage)
    /\ LET r == DecodeU32(SubSeq(data, 1, 4))
       IN /\ r.ok
          /\ r.val >= 0
          /\ VarintU32(r.val) = << 252 >> \o PROTOCOL_MAGIC
          /\ data[5] = MsgHello

\* make_server_hello_message, lines 148-157.
MakeServerHelloMessage == << MsgHello, VERSION >>

\* make_ok_message, make_start_playing_message, make_stop_playing_message,
\* make_bye_message.
MakeOkMessage == << MsgOk >>

MakeStartPlayingMessage == << MsgStartPlaying >>

MakeStopPlayingMessage == << MsgStopPlaying >>

MakeByeMessage == << MsgBye >>

\* extract_message_type (mutant: decodes the last byte of the slice).
ExtractMessageTypeLast(data) ==
    IF data = << >> THEN MsgNone
    ELSE LET d == DecodeU32(<< data[Len(data)] >>)
         IN IF d.ok /\ d.val \in MsgHello..MsgAudioHeader THEN d.val ELSE MsgNone

\* extract_message_type, lines 198-211: decodes data[0..1] as a MessageType;
\* MsgNone when the slice is empty or the byte is no variant index.
ExtractMessageType(data) ==
    IF data = << >> THEN MsgNone
    ELSE LET d == DecodeU32(<< data[1] >>)
         IN IF d.ok /\ d.val \in MsgHello..MsgAudioHeader THEN d.val ELSE MsgNone

\* check_ok_message, lines 230-243 (mutant: looks at the first byte only).
CheckOkFirstByte(data) == data # << >> /\ ExtractMessageType(data) = MsgOk

\* check_ok_message: exactly one byte, decoding to Ok.
CheckOkMessage(data) == Len(data) = 1 /\ ExtractMessageType(data) = MsgOk

\* check_bye_message, lines 275-288.
CheckByeMessage(data) == Len(data) = 1 /\ ExtractMessageType(data) = MsgBye

\* extract_protocol_info, lines 159-166: one u8 after the first byte, which
\* is not looked at.  data is never empty here (the callers read n > 0 bytes).
ExtractProtocolInfo(data) ==
    IF Len(data) < 2 THEN [ok |-> FALSE, version |-> 0]
    ELSE [ok |-> TRUE, version |-> data[2]]

\* audio_header_to_bytes, lines 221-228.
AudioHeaderToBytes(h) ==
    << MsgAudioHeader >> \o VarintU32(h.sample_rate)
    \o << h.channels, h.bits_per_sample,
          IF h.sample_format = "Int" THEN 0 ELSE 1 >>

\* extract_wav_header, lines 213-219: the header fields after the first byte,
\* which is not looked at: the sample rate as a variable-length u32, two
\* bytes, and the variant index of the sample kind, a variable-length u32
\* too (0 or 1 in any of its forms); bytes after the header are ignored.
ExtractWavHeader(data) ==
    LET r == DecodeU32(Tail(data))
        f == DecodeU32(DropN(r.rest, 2))
    IN IF ~r.ok \/ Len(r.rest) < 3 \/ ~f.ok \/ f.val \notin { 0, 1 }
       THEN [ok |-> FALSE, header |-> NoHeader]
       ELSE [ok |-> TRUE,
             header |-> [sample_rate |-> r.val, channels |-> r.rest[1],
                         bits_per_sample |-> r.rest[2],
                         sample_format |-> IF f.val = 0 THEN "Int"
                                           ELSE "Float"]]

\* AudioHeader::update_wavspec, lines 91-99: `as u8` keeps the low byte.
UpdateWavspec(spec) ==
    [sample_rate |-> spec.sample_rate,
     channels |-> spec.channels % 256,
     bits_per_sample |-> spec.bits_per_sample % 256,
     sample_format |-> spec.sample_format]

\* AudioHeader::to_wavspec, lines 79-89.
ToWavspec(h) ==
    [sample_rate |-> h.sample_rate, channels |-> h.channels,
     bits_per_sample |-> h.bits_per_sample, sample_format |-> h.sample_format]

\* LengthDelimitedCodec (default): a 4-byte big-endian length, then the
\* payload.  Payloads of the model are shorter than 256 bytes.
EncodeFrame(payload) == << 0, 0, 0, Len(payload) >> \o payload

\* LengthDelimitedCodec::max_frame_length, 8 MiB by default.
MAX_FRAME_LENGTH == 8388608

\* The length a frame head announces; every length of 2^24 or more is
\* reported as 2^24 (all of them exceed MAX_FRAME_LENGTH).
FrameLen(b) ==
    IF b[1] > 0 THEN 16777216 ELSE 65536 * b[2] + 256 * b[3] + b[4]

\* Whether the head of b announces a frame longer than the codec accepts.
FrameTooLong(b) == Len(b) >= 4 /\ FrameLen(b) > MAX_FRAME_LENGTH

\* Whether b starts with a whole frame.
HasWholeFrame(b) ==
    Len(b) >= 4 /\ ~FrameTooLong(b) /\ Len(b) >= 4 + FrameLen(b)

\* i16::to_le_bytes / i32::to_le_bytes / f32::to_le_bytes (two's complement).
ToLeBytes(v, width) ==
    IF width = 2 THEN << v % 256, (v \div 256) % 256 >>
    ELSE << v % 256, (v \div 256) % 256, (v \div 65536) % 256,
            (v \div 16777216) % 256 >>

\* is_stop_playing_message (mutant: the length of the payload is not looked
\* at, only its first byte).
IsStopFirstByte(data) ==
    data # << >> /\ ExtractMessageType(data) = MsgStopPlaying

\* ClientInterface::is_stop_playing_message, client_manager.rs lines 115-128.
IsStopPlayingMessage(data) ==
    Len(data) = 1 /\ ExtractMessageType(data) = MsgStopPlaying

\* ---------------------------------------------------------------------------
\* The conversions on their own
\* ---------------------------------------------------------------------------

\* No conversion was applied yet.
NoOutcome == [op |-> "none", bytes |-> << >>, outcome |-> "none",
              header |-> NoHeader]

\* Sample rates around the steps of the variable-length encoding, and the
\* largest the model's integers hold.
CodecRates == { 0, 250, 251, 8000, 65535, 65536, 2147483647 }

\* Channel counts of a WAV spec (u16) around the range of the header's u8.
CodecChannels == { 0, 1, 2, 250, 251, 255, 256, 257, 65535 }

\* WAV specs in the supported matrix of bit depth and sample kind.
CodecSpecs ==
    { [sample_rate |-> r, channels |-> c, bits_per_sample |-> d[1],
       sample_format |-> d[2]] :
         r \in CodecRates, c \in CodecChannels,
         d \in { << 16, "Int" >>, << 32, "Int" >>, << 32, "Float" >> } }

\* Whether the fields of spec fit an AudioHeader (channels and
\* bits_per_sample are u8, protocol.rs lines 47-52).
IsAudioHeader(spec) == spec.channels < 256 /\ spec.bits_per_sample < 256

\* What a call of extract_wav_header does: `&data[1..]` panics on an empty
\* slice, a failed decode is None.
ExtractWavHeaderOutcome(data) ==
    IF data = << >> THEN "panic"
    ELSE IF ExtractWavHeader(data).ok THEN "some" ELSE "none"

\* What a call of extract_protocol_info does: `&data[1..]` as above.
ExtractProtocolInfoOutcome(data) ==
    IF data = << >> THEN "panic"
    ELSE IF ExtractProtocolInfo(data).ok THEN "some" ELSE "none"

\* What a call of extract_message_type does: the empty slice is None.
ExtractMessageTypeOutcome(data) ==
    IF ExtractMessageType(data) = MsgNone THEN "none" ELSE "some"

\* The control messages, each the one byte of its MessageType.
ControlMessages ==
    { MakeOkMessage, MakeStartPlayingMessage, MakeStopPlayingMessage,
      MakeByeMessage }

\* Nothing is being converted and no server is listening.
CodecIdle ==
    /\ k_in = NoHeader /\ k_out = NoOutcome
    /\ conns = << >> /\ listener = "none"

\* extract_wav_header(audio_header_to_bytes(header)).
EncodeDecodeHeader ==
    /\ k_out.op = "none" /\ k_in # NoHeader
    /\ IsAudioHeader(k_in)
    /\ LET bytes == AudioHeaderToBytes(k_in)
           r     == ExtractWavHeader(bytes)
       IN k_out' = [op |-> "header", bytes |-> bytes,
                    outcome |-> ExtractWavHeaderOutcome(bytes),
                    header |-> r.header]
    /\ UNCHANGED << k_in, pbvars, svars, rvars >>

\* header.update_wavspec(spec); header.to_wavspec().
WavspecThroughHeader ==
    /\ k_out.op = "none" /\ k_in # NoHeader
    /\ k_out' = [op |-> "wavspec", bytes |-> << >>, outcome |-> "some",
                 header |-> ToWavspec(UpdateWavspec(k_in))]
    /\ UNCHANGED << k_in, pbvars, svars, rvars >>

\* extract_wav_header applied to a strict prefix of an encoded header.
DecodeHeaderPrefix ==
    /\ k_out.op = "none" /\ k_in # NoHeader
    /\ IsAudioHeader(k_in)
    /\ \E n \in 0..(Len(AudioHeaderToBytes(k_in)) - 1) :
          LET bytes == TakeN(AudioHeaderToBytes(k_in), n)
          IN k_out' = [op |-> "prefix", bytes |-> bytes,
                       outcome |-> ExtractWavHeaderOutcome(bytes),
                       header |-> NoHeader]
    /\ UNCHANGED << k_in, pbvars, svars, rvars >>

\* extract_protocol_info applied to a strict prefix of the server hello.
DecodeProtocolInfoPrefix ==
    /\ k_out.op = "none" /\ k_in # NoHeader
    /\ \E n \in 0..(Len(MakeServerHelloMessage) - 1) :
          LET bytes == TakeN(MakeServerHelloMessage, n)
          IN k_out' = [op |-> "prefix", bytes |-> bytes,
                       outcome |-> ExtractProtocolInfoOutcome(bytes),
                       header |-> NoHeader]
    /\ UNCHANGED << k_in, pbvars, svars, rvars >>

\* extract_message_type applied to a strict prefix of a control message.
DecodeMessageTypePrefix ==
    /\ k_out.op = "none" /\ k_in # NoHeader
    /\ \E m \in ControlMessages : \E n \in 0..(Len(m) - 1) :
          LET bytes == TakeN(m, n)
          IN k_out' = [op |-> "prefix", bytes |-> bytes,
                       outcome |-> ExtractMessageTypeOutcome(bytes),
                       header |-> NoHeader]
    /\ UNCHANGED << k_in, pbvars, svars, rvars >>

\* ===========================================================================
\* One session: ClientInterface against Server::client_handler over one TCP
\* connection.  Either side may instead be a raw peer that writes messages of
\* its own choice, so that each program is also seen against a peer that does
\* not follow the protocol.
\* ===========================================================================

\* ------------------------------------------------------------------ bounds
\* Most samples in the source file.
MaxSamples == 3
\* Most messages a raw peer writes.
MaxRawSends == 5

\* `vec![0u8; 4096]` of read_and_send (network/file.rs line 38), scaled by
\* 1/1024: still a multiple of both sample widths.
BUFFER_LEN == 4

\* `[0u8; 4096]`, the receive buffer of every expect-step.
RECV_BUF == 4096


\* Sample values of the source files; an f32 sample is its bit pattern.
SamplePool16 == << -2, 258, 32767, -32768 >>

SamplePool32 == << 2147418370, -2, 65537, -2147483647 >>

\* What may lie at the server's file_path: RIFF/WAVE files in the supported
\* formats and in one the reader rejects, with 0..MaxSamples samples in their
\* data chunk.
DiskFiles ==
    { [spec |-> [sample_rate |-> 8000, channels |-> c, bits_per_sample |-> 16,
                 sample_format |-> "Int"],
       samples |-> TakeN(SamplePool16, n)] : c \in { 1, 2 }, n \in 0..MaxSamples }
    \cup
    { [spec |-> [sample_rate |-> 100, channels |-> 1, bits_per_sample |-> 32,
                 sample_format |-> "Int"],
       samples |-> TakeN(SamplePool32, n)] : n \in 0..MaxSamples }
    \cup
    { [spec |-> [sample_rate |-> 70000, channels |-> 1, bits_per_sample |-> 32,
                 sample_format |-> "Float"],
       samples |-> TakeN(SamplePool32, n)] : n \in 0..MaxSamples }
    \cup
    { [spec |-> [sample_rate |-> 8000, channels |-> 1, bits_per_sample |-> 24,
                 sample_format |-> "Int"],
       samples |-> TakeN(SamplePool16, n)] : n \in {1} }

\* hound::WavReader::open in open_file, wav.rs line 112: a data chunk whose
\* sample count is no multiple of the channel count is refused ("invalid data
\* chunk length").
WellFormed(f) == Len(f.samples) % f.spec.channels = 0

\* The source files: the files open_file opens.
SourceFiles == { f \in DiskFiles : WellFormed(f) }

\* No file was opened yet.
NoFile == [spec |-> NoHeader, samples |-> << >>]

\* WavFileRead::open_file, wav.rs lines 108-115, on what lies at the path
\* (NoFile: nothing): the reader's file, or NoFile with the Err of
\* WavReader::open.
OpenFile(f) == IF f # NoFile /\ WellFormed(f) THEN f ELSE NoFile

\* WavFileWrite::new, wav.rs lines 131-136: no writer yet.
NewWav == [state |-> "new", spec |-> NoHeader, samples |-> << >>]

\* WavFileWrite::new with a file_path in a directory that does not exist.
NoDirWav == [state |-> "nodir", spec |-> NoHeader, samples |-> << >>]

Ev(e, d) == [ev |-> e, data |-> d]

\* --------------------------------------------------------------- WAV reader

\* The sample width WavFileRead::read dispatches on, wav.rs lines 84-101;
\* 0 stands for the Err("Unsupported bit depth") branches.
ReadWidth(spec) ==
    IF spec.sample_format = "Int" /\ spec.bits_per_sample = 16 THEN 2
    ELSE IF spec.sample_format = "Int" /\ spec.bits_per_sample = 32 THEN 4
    ELSE IF spec.sample_format = "Float" /\ spec.bits_per_sample = 32 THEN 4
    ELSE 0

RECURSIVE EncodeSamples(_, _)
EncodeSamples(samples, width) ==
    IF samples = << >> THEN << >>
    ELSE ToLeBytes(Head(samples), width) \o EncodeSamples(Tail(samples), width)

\* The read_*_samples functions (mutant: the sample count is rounded up, so
\* the last sample may not fit the buffer).
ReadSamplesRoundUp(f, pos, buflen) ==
    LET width == ReadWidth(f.spec)
        n == Min((buflen + width - 1) \div width, Len(f.samples) - pos)
    IN [bytes |-> EncodeSamples(SubSeq(f.samples, pos + 1, pos + n), width),
        pos   |-> pos + n]

\* read_i16_samples / read_i32_samples / read_f32_samples, wav.rs lines
\* 19-79: `take(data.len() / width)` samples from position pos, little endian.
ReadSamples(f, pos, buflen) ==
    LET width == ReadWidth(f.spec)
        n == Min(buflen \div width, Len(f.samples) - pos)
    IN [bytes |-> EncodeSamples(SubSeq(f.samples, pos + 1, pos + n), width),
        pos   |-> pos + n]

\* --------------------------------------------------------------- WAV writer

\* The specs hound::WavWriter::create makes a writer for, wav.rs line 193:
\* 8, 16, 24 or 32 bits per sample, Float samples only with 32 bits.
WriterAccepts(spec) ==
    /\ spec.bits_per_sample \in { 8, 16, 24, 32 }
    /\ spec.sample_format = "Float" => spec.bits_per_sample = 32

\* WavFileWrite::update_format, wav.rs lines 189-198.  With a writer, todo!()
\* panics.  Without one, WavWriter::create creates (truncates) the file and
\* makes the writer, and `.unwrap()` panics when it fails: the file cannot be
\* created, or it was created and the spec is refused (a file of 0 bytes is
\* left, "created").  ok = FALSE is the panic; the writer is then as before.
WavUpdateFormat(w, h) ==
    IF w.state \in { "open", "nodir" } THEN [ok |-> FALSE, wav |-> w]
    ELSE IF ~WriterAccepts(ToWavspec(h))
    THEN [ok |-> FALSE,
          wav |-> [state |-> "created", spec |-> NoHeader, samples |-> << >>]]
    ELSE [ok |-> TRUE,
          wav |-> [state |-> "open", spec |-> ToWavspec(h), samples |-> << >>]]

\* The sample width of WavFileWrite::write, wav.rs lines 146-150; 0 is the Err.
WriteWidth(spec) ==
    IF spec.bits_per_sample = 16 THEN 2
    ELSE IF spec.bits_per_sample = 32 THEN 4
    ELSE 0

\* WavFileWrite::write (mutant: the short last chunk is padded with zero
\* bytes and written as a sample).
WavWritePadsTail(w, data) ==
    IF w.state # "open" \/ WriteWidth(w.spec) = 0
    THEN [ok |-> FALSE, wav |-> w]
    ELSE LET size == WriteWidth(w.spec)
             pad  == (size - (Len(data) % size)) % size
         IN [ok |-> TRUE,
             wav |-> [w EXCEPT !.samples =
                         @ \o DecodeAllLe(data \o [i \in 1..pad |-> 0], size)]]

\* WavFileWrite::write, wav.rs lines 140-180: whole chunks of the sample
\* width are decoded and appended, the trailing bytes are left out.  A
\* missing writer panics, an unsupported depth is an Err, the 16-bit Float
\* arm is todo!(): all three end the client (ok = FALSE).
WavWrite(w, data) ==
    IF w.state # "open" THEN [ok |-> FALSE, wav |-> w]
    ELSE IF WriteWidth(w.spec) = 0 THEN [ok |-> FALSE, wav |-> w]
    ELSE IF w.spec.sample_format = "Float" /\ w.spec.bits_per_sample = 16
    THEN [ok |-> Len(data) < 2, wav |-> w]
    ELSE [ok |-> TRUE,
          wav |-> [w EXCEPT !.samples =
                        @ \o DecodeAllLe(data, WriteWidth(w.spec))]]

\* WavFileWrite::finalize (mutant: the writer is kept, nothing is closed).
WavFinalizeKeepsWriter(w) == [ok |-> TRUE, wav |-> w]

\* WavFileWrite::finalize, wav.rs lines 182-188: `self.writer.take()`, the
\* writer taken is finalized: the lengths are written and the file is
\* closed, and an Err is returned when the samples written are no whole
\* number of frames (hound divides the sample count by the channel count;
\* every writer of the model has at least one channel).  Without a writer
\* nothing is done.
WavFinalize(w) ==
    IF w.state = "open"
    THEN [ok  |-> w.spec.channels > 0
                    /\ Len(w.samples) % w.spec.channels = 0,
          wav |-> [w EXCEPT !.state = "closed"]]
    ELSE [ok |-> TRUE, wav |-> w]

\* A WavFileWrite is dropped: hound's WavWriter finalizes on Drop and has
\* nobody to report to.
WavDrop(w) == WavFinalize(w).wav

\* ------------------------------------------------------------------ server

\* What one socket.read(&mut recv_buf) may return when ch is not empty: any
\* non-empty prefix of the bytes in flight that fits the buffer.
ReadLens(ch) == 1..Min(Len(ch), RECV_BUF)

\* The server sides of a session:
\*   "server"  Server::client_handler with send_file of process_client_request
\*             (server_manager.rs line 113) taken as network::file::send_file
\*             (file.rs lines 73-81), the sender the client's start_playing
\*             is written for: send_wav_file;
\*   "sender"  Server::client_handler as server_manager.rs has it: its own
\*             send_file (lines 18-26), which calls WavFileSender::send_file;
\*   "common"  network::common::handshake_from_server on a socket of its
\*             caller (common.rs lines 125-134).
Handlers == { "server", "sender" }

\* Client_handler returned (Ok or Err): its socket is dropped.  The socket
\* of handshake_from_server is borrowed; its return closes nothing.
ServerEnds(pc, log) ==
    /\ s_pc' = pc
    /\ s_open' = (s_kind = "common")
    /\ s_log' = log
    /\ UNCHANGED s_pos

\* What answers the peer's hello: send_hello_response (server_manager.rs
\* lines 58-64) writes make_server_hello_message, send_hello of
\* handshake_from_server (common.rs lines 9-16, 129) make_client_hello_message.
HelloAnswer(kind) ==
    IF kind = "common" THEN MakeClientHelloMessage ELSE MakeServerHelloMessage

\* Server::expect_client_hello (server_manager.rs lines 47-56) and
\* send_hello_response (lines 58-64), expect_hello and send_hello of
\* handshake_from_server: any non-empty read counts as the hello.
ServerExpectClientHello ==
    /\ s_kind \in Handlers \cup { "common" } /\ s_pc = "hello"
    /\ c2s # << >>
    /\ \E k \in ReadLens(c2s) :
          /\ c2s' = DropN(c2s, k)
          /\ s2c' = s2c \o HelloAnswer(s_kind)
          /\ s_pc' = "ok"
          /\ s_log' = s_log \o << Ev("rx_hello", TakeN(c2s, k)),
                                 Ev("tx_hello", HelloAnswer(s_kind)) >>
    /\ UNCHANGED << s_open, s_pos, constv, cliv, raw_left, raw_sent, pbvars, kvars, rvars >>

\* Any expect-step whose read returns 0 bytes: Err, the handler ends.
ServerReadsEof ==
    /\ s_kind \in Handlers \cup { "common" }
    /\ s_pc \in {"hello", "ok", "request", "stream_ok"}
    /\ c2s = << >> /\ ~c_open
    /\ ServerEnds("failed", Append(s_log, Ev("rx_eof", << >>)))
    /\ UNCHANGED << c2s, s2c, constv, cliv, raw_left, raw_sent, pbvars, kvars, rvars >>

\* Server::expect_ok_message, lines 66-82, the last step of client_handshake,
\* and expect_ok_message of handshake_from_server (common.rs lines 95-111,
\* 131), which then returns Ok to its caller.
ServerExpectOk ==
    /\ s_kind \in Handlers \cup { "common" } /\ s_pc = "ok"
    /\ c2s # << >>
    /\ \E k \in ReadLens(c2s) :
          LET data == TakeN(c2s, k) IN
          /\ c2s' = DropN(c2s, k)
          /\ IF CheckOkMessage(data)
             THEN /\ s_pc' = IF s_kind = "common" THEN "returned" ELSE "request"
                  /\ s_log' = Append(s_log, Ev("rx_ok", data))
                  /\ UNCHANGED << s_open, s_pos >>
             ELSE ServerEnds("failed", Append(s_log, Ev("rx_bad", data)))
    /\ UNCHANGED << s2c, constv, cliv, raw_left, raw_sent, pbvars, kvars, rvars >>

\* The files WavFileSender::send_file is given: of the 16-bit files the empty
\* ones, the longest and the ones open_file refuses, and the file the reader
\* rejects.
SenderFiles ==
    { f \in DiskFiles :
         \/ f.spec.bits_per_sample = 16 /\ Len(f.samples) \in { 0, MaxSamples }
         \/ f.spec.bits_per_sample = 16 /\ ~WellFormed(f)
         \/ f.spec.bits_per_sample = 24 }

\* What open_file finds at the handler's file_path when it opens it for the
\* first time: one of the files, or nothing (NoFile).
FilesAtPath(kind) ==
    (IF kind = "sender" THEN SenderFiles ELSE DiskFiles) \cup { NoFile }

\* process_client_request, lines 105-124: expect_message_type, then
\*   Bye          -> send_bye_message, the handler returns Ok;
\*   StartPlaying -> send_file: open_file, whose Err ends the handler; then
\*                   send_header (file.rs lines 24-32) of send_wav_file, or
\*                   the loop of WavFileSender::send_file;
\*   otherwise    -> Err.
ServerExpectMessageType ==
    /\ s_kind \in Handlers /\ s_pc = "request"
    /\ c2s # << >>
    /\ \E k \in ReadLens(c2s) :
          LET data == TakeN(c2s, k)
              t    == ExtractMessageType(data)
          IN
          /\ c2s' = DropN(c2s, k)
          /\ IF t = MsgBye
             THEN /\ s2c' = s2c \o MakeByeMessage
                  /\ ServerEnds("done", s_log \o << Ev("rx_bye", data),
                                                   Ev("tx_bye", MakeByeMessage) >>)
                  /\ UNCHANGED src
             ELSE IF t = MsgStartPlaying
             THEN \E at \in (IF src = NoFile THEN FilesAtPath(s_kind)
                              ELSE { src }) :
                  LET f  == OpenFile(at)
                      hb == AudioHeaderToBytes(UpdateWavspec(f.spec))
                  IN
                  IF f = NoFile
                  THEN /\ ServerEnds("failed",
                                     s_log \o << Ev("rx_start", data),
                                                 Ev("open_err", << >>) >>)
                       /\ UNCHANGED << s2c, src >>
                  ELSE IF s_kind = "sender"
                  THEN /\ src' = f
                       /\ s_pc' = "raw_sending"
                       /\ s_pos' = 0
                       /\ s_log' = Append(s_log, Ev("rx_start", data))
                       /\ UNCHANGED << s2c, s_open >>
                  ELSE /\ src' = f
                       /\ s2c' = s2c \o hb
                       /\ s_pc' = "stream_ok"
                       /\ s_pos' = 0
                       /\ s_log' = s_log \o << Ev("rx_start", data),
                                              Ev("tx_header", hb) >>
                       /\ UNCHANGED s_open
             ELSE /\ ServerEnds("failed", Append(s_log, Ev("rx_bad", data)))
                  /\ UNCHANGED << s2c, src >>
    /\ UNCHANGED << c_kind, s_kind, c_sinks, cliv, raw_left, raw_sent, pbvars, kvars, rvars >>

\* send_wav_file, file.rs line 62: expect_ok_message after the header.
ServerStreamExpectOk ==
    /\ s_kind = "server" /\ s_pc = "stream_ok"
    /\ c2s # << >>
    /\ \E k \in ReadLens(c2s) :
          LET data == TakeN(c2s, k) IN
          /\ c2s' = DropN(c2s, k)
          /\ IF CheckOkMessage(data)
             THEN /\ s_pc' = "sending"
                  /\ s_log' = Append(s_log, Ev("rx_ok", data))
                  /\ UNCHANGED << s_open, s_pos >>
             ELSE ServerEnds("failed", Append(s_log, Ev("rx_bad", data)))
    /\ UNCHANGED << s2c, constv, cliv, raw_left, raw_sent, pbvars, kvars, rvars >>

\* Whether the loop of read_and_send goes round again after a read of n bytes:
\* `if n == 0 { break }` and `last_buffer = n < buffer.len()`, file.rs 43-50.
LoopAgain(n) == n > 0 /\ ~(n < BUFFER_LEN)

\* One round of the loop of read_and_send (mutant: `if n == 0 { break }` is
\* left out, the empty chunk is sent as a frame).
ServerReadAndSendEmpty ==
    /\ s_kind = "server" /\ s_pc = "sending"
    /\ IF ReadWidth(src.spec) = 0
       THEN /\ ServerEnds("failed", Append(s_log, Ev("read_err", << >>)))
            /\ UNCHANGED s2c
       ELSE LET r == ReadSamples(src, s_pos, BUFFER_LEN)
                n == Len(r.bytes)
            IN /\ s_pos' = r.pos
               /\ s2c' = s2c \o EncodeFrame(r.bytes)
               /\ s_log' = Append(s_log, Ev("tx_data", r.bytes))
               /\ s_pc' = IF LoopAgain(n) THEN "sending" ELSE "stop"
               /\ UNCHANGED s_open
    /\ UNCHANGED << c2s, constv, cliv, raw_left, raw_sent, pbvars, kvars, rvars >>

\* One round of the loop of read_and_send, file.rs lines 41-51: read up to
\* BUFFER_LEN bytes of whole samples; 0 bytes ends the loop, otherwise the
\* chunk is sent as one frame and a short chunk ends the loop.  A file whose
\* format the reader rejects makes read() fail: send_wav_file returns Err.
ServerReadAndSend ==
    /\ s_kind = "server" /\ s_pc = "sending"
    /\ IF ReadWidth(src.spec) = 0
       THEN /\ ServerEnds("failed", Append(s_log, Ev("read_err", << >>)))
            /\ UNCHANGED s2c
       ELSE LET r == ReadSamples(src, s_pos, BUFFER_LEN)
                n == Len(r.bytes)
            IN /\ s_pos' = r.pos
               /\ s2c' = IF n = 0 THEN s2c ELSE s2c \o EncodeFrame(r.bytes)
               /\ s_log' = IF n = 0 THEN s_log
                           ELSE Append(s_log, Ev("tx_data", r.bytes))
               /\ s_pc' = IF LoopAgain(n) THEN "sending" ELSE "stop"
               /\ UNCHANGED s_open
    /\ UNCHANGED << c2s, constv, cliv, raw_left, raw_sent, pbvars, kvars, rvars >>

\* send_stop_playing_message, file.rs lines 16-22; send_wav_file returns Ok
\* and process_client_request loops.
ServerSendStop ==
    /\ s_kind = "server" /\ s_pc = "stop"
    /\ s2c' = s2c \o EncodeFrame(MakeStopPlayingMessage)
    /\ s_log' = Append(s_log, Ev("tx_stop", MakeStopPlayingMessage))
    /\ s_pc' = "request"
    /\ UNCHANGED << s_open, s_pos, c2s, constv, cliv, raw_left, raw_sent, pbvars, kvars, rvars >>

\* The magic of a header-prefixed message; nothing in the model decodes it.
FullMessageMagic == << 0, 0 >>

\* protocol::make_full_message on protocol::Header::new(RawData) after
\* update_header and set_payload_size (wav.rs lines 209-217): the header
\* fields magic:u16, version:u8, msg_type:u8 (RawData is 2), payload_size:u16
\* (`n as u16`), sample_rate:u32, channels:u8, bits_per_sample:u8,
\* sample_kind:u8, and the payload behind them.
MakeFullMessage(h, payload) ==
    FullMessageMagic \o << VERSION, 2 >>
       \o ToLeBytes(Len(payload) % 65536, 2)
       \o ToLeBytes(h.sample_rate, 4)
       \o << h.channels, h.bits_per_sample,
             IF h.sample_format = "Int" THEN 0 ELSE 1 >>
       \o payload

\* One round of the loop of WavFileSender::send_file, wav.rs lines 211-225:
\* read up to BUFFER_LEN bytes of whole samples; 0 bytes ends the loop,
\* otherwise the chunk goes out as one header-prefixed RawData message
\* (write_all) and a short chunk ends the loop.  After the loop send_file
\* returns Ok and process_client_request loops: no AudioHeader was sent, no Ok
\* waited for, no StopPlaying sent.  A read() that fails ends the handler.
SenderReadAndSend ==
    /\ s_kind = "sender" /\ s_pc = "raw_sending"
    /\ IF ReadWidth(src.spec) = 0
       THEN /\ ServerEnds("failed", Append(s_log, Ev("read_err", << >>)))
            /\ UNCHANGED s2c
       ELSE LET r == ReadSamples(src, s_pos, BUFFER_LEN)
                n == Len(r.bytes)
                m == MakeFullMessage(UpdateWavspec(src.spec), r.bytes)
            IN /\ s_pos' = r.pos
               /\ s2c' = IF n = 0 THEN s2c ELSE s2c \o m
               /\ s_log' = IF n = 0 THEN s_log
                           ELSE Append(s_log, Ev("tx_raw", r.bytes))
               /\ s_pc' = IF LoopAgain(n) THEN "raw_sending" ELSE "request"
               /\ UNCHANGED s_open
    /\ UNCHANGED << c2s, constv, cliv, raw_left, raw_sent, pbvars, kvars, rvars >>

\* ------------------------------------------------------------------ client

\* start_playing returned (Ok or Err): it borrows the ClientInterface, the
\* socket and the sinks stay as they are until the caller drops it.
ClientEnds(pc, log) ==
    /\ c_pc' = pc
    /\ c_log' = log
    /\ UNCHANGED c_open

\* connect returned Err (the ClientInterface it made is dropped, lines 28-37),
\* or the client panicked: the socket is closed at once.
ClientGone(pc, log) ==
    /\ c_pc' = pc
    /\ c_open' = FALSE
    /\ c_log' = log

\* CpalFileWrite::new as one sink of a session, cpal.rs: no header, no stream.
NewPlay == [header |-> NoHeader, first_play |-> TRUE, stream |-> "none",
            cfg |-> NoCfg, pushed |-> << >>]

\* CpalFileWrite::update_format, cpal.rs lines 368-371.
PlayUpdateFormat(p, h) == [p EXCEPT !.header = h]

\* CpalFileWrite::write, cpal.rs lines 344-355: the first call builds and
\* starts the stream, for the channels and the sample type of the header
\* stored then (play_audio_from_buf and build_stream, lines 235-286), and
\* fails, before anything is queued, when the header's format has no sample
\* type; a later call builds nothing (the stream is as finalize() left it);
\* every call appends the slice to the queue.
PlayWrite(p, data) ==
    IF p.first_play /\ (p.header = NoHeader \/ SampleSizeOf(p.header) = 0)
    THEN [ok |-> FALSE, play |-> p]
    ELSE [ok |-> TRUE,
          play |-> [p EXCEPT !.first_play = FALSE,
                             !.stream = IF p.first_play THEN "playing" ELSE @,
                             !.cfg = IF p.first_play
                                     THEN [channels |-> p.header.channels,
                                           sample_size |-> SampleSizeOf(p.header)]
                                     ELSE @,
                             !.pushed = ExtendBuf(@, data)]]

\* CpalFileWrite::finalize, cpal.rs lines 357-366, once recv() has returned:
\* the stream is paused and dropped.
PlayFinalize(p) == [p EXCEPT !.stream = "none"]

\* A CpalFileWrite is dropped: its cpal::Stream goes with it, whatever is
\* still queued.
PlayDrop(p) == [p EXCEPT !.stream = "none"]

\* Whether play_done_rx.recv() of finalize returns.  Without a stream no
\* callback runs and nothing is ever sent.  With a stream the callback sends
\* its one signal when it finds the queue empty, which it may do before the
\* first slice is appended; it takes whole frames of the size the stream was
\* built with (frame_size = channels * sample_size of build_stream, cpal.rs
\* line 286, whatever header was stored since), so with bytes short of a
\* frame queued the signal may also never come.  A stream built for no
\* channel has no frame: `output.chunks_mut(0)` panics in the callback and
\* nothing is sent.
PlayReturns(sinks, p) ==
    LET frame_size == p.cfg.channels * p.cfg.sample_size IN
    IF \A i \in DOMAIN sinks : sinks[i] # "play" THEN { TRUE }
    ELSE IF p.stream = "none" THEN { FALSE }
    ELSE IF frame_size = 0 THEN { FALSE }
    ELSE IF Len(p.pushed) % frame_size # 0 THEN { TRUE, FALSE }
    ELSE { TRUE }

\* update_audio_capabilities, client_manager.rs lines 93-98: update_format on
\* every sink, in registration order.  A panic of the file sink's
\* update_format (ok = FALSE) ends the loop: the sinks behind it get nothing.
RECURSIVE UpdateSinks(_, _, _, _)
UpdateSinks(sinks, w, p, h) ==
    IF sinks = << >> THEN [ok |-> TRUE, wav |-> w, play |-> p, calls |-> << >>]
    ELSE LET file == Head(sinks) = "file"
             fu   == WavUpdateFormat(w, h)
             call == Ev(Head(sinks) \o ".update_format", << >>)
         IN IF file /\ ~fu.ok
            THEN [ok |-> FALSE, wav |-> fu.wav, play |-> p, calls |-> << call >>]
            ELSE LET r == UpdateSinks(Tail(sinks),
                                      IF file THEN fu.wav ELSE w,
                                      IF file THEN p ELSE PlayUpdateFormat(p, h),
                                      h)
                 IN [r EXCEPT !.calls = << call >> \o @]

\* `for capability in &mut self.audio_capabilities { capability.write(..)? }`,
\* lines 142-144: the first failing write() ends the loop and the session.
RECURSIVE WriteSinks(_, _, _, _)
WriteSinks(sinks, w, p, data) ==
    IF sinks = << >>
    THEN [ok |-> TRUE, wav |-> w, play |-> p, calls |-> << >>]
    ELSE LET file == Head(sinks) = "file"
             fw   == WavWrite(w, data)
             pw   == PlayWrite(p, data)
             ok   == IF file THEN fw.ok ELSE pw.ok
             w1   == IF file THEN fw.wav ELSE w
             p1   == IF file THEN p ELSE pw.play
             call == Ev(Head(sinks) \o ".write", data)
         IN IF ok
            THEN LET r == WriteSinks(Tail(sinks), w1, p1, data)
                 IN [r EXCEPT !.calls = << call >> \o @]
            ELSE [ok |-> FALSE, wav |-> w1, play |-> p1, calls |-> << call >>]

\* end_audio, lines 100-105: `capability.finalize()?` on every sink, in
\* registration order.  The Err of the file sink's finalize() ends the loop
\* (err = TRUE): the sinks behind it are not finalized.  returns tells
\* whether the playback sink's finalize() has come back; until it has, the
\* sinks behind it are not reached (done = FALSE).
RECURSIVE FinalizeSinks(_, _, _, _)
FinalizeSinks(sinks, w, p, returns) ==
    IF sinks = << >>
    THEN [done |-> TRUE, err |-> FALSE, wav |-> w, play |-> p, calls |-> << >>]
    ELSE LET file == Head(sinks) = "file"
             fw   == WavFinalize(w)
             call == Ev(Head(sinks) \o ".finalize", << >>)
         IN IF file /\ ~fw.ok
            THEN [done |-> FALSE, err |-> TRUE, wav |-> fw.wav, play |-> p,
                  calls |-> << call >>]
            ELSE IF file \/ returns
            THEN LET r == FinalizeSinks(Tail(sinks),
                                        IF file THEN fw.wav ELSE w,
                                        IF file THEN p ELSE PlayFinalize(p),
                                        returns)
                 IN [r EXCEPT !.calls = << call >> \o @]
            ELSE [done |-> FALSE, err |-> FALSE, wav |-> w, play |-> p,
                  calls |-> << call >>]

\* connect -> authenticate -> send_hello, lines 26-41 and 71-78.
ClientSendHello ==
    /\ c_kind = "client" /\ c_pc = "start"
    /\ c2s' = c2s \o MakeClientHelloMessage
    /\ c_pc' = "proto"
    /\ c_log' = Append(c_log, Ev("tx_hello", MakeClientHelloMessage))
    /\ UNCHANGED << s2c, c_open, c_fbuf, wav, c_play, c_hdr, constv, servv, raw_left, raw_sent,
                    pbvars, kvars, rvars >>

\* Any expect-step of the client whose read returns 0 bytes: Err.
ClientReadsEof ==
    /\ c_kind = "client"
    /\ c_pc \in {"proto", "header", "expect_bye"}
    /\ s2c = << >> /\ ~s_open
    /\ IF c_pc = "proto"
       THEN ClientGone("failed", Append(c_log, Ev("rx_eof", << >>)))
       ELSE ClientEnds("failed", Append(c_log, Ev("rx_eof", << >>)))
    /\ UNCHANGED << c2s, s2c, c_fbuf, wav, c_play, c_hdr, constv, servv, raw_left, raw_sent,
                    pbvars, kvars, rvars >>

\* expect_protocol_info (lines 55-69), then send_ok_message (lines 47-53):
\* connect returns Ok.
ClientExpectProtocolInfo ==
    /\ c_kind = "client" /\ c_pc = "proto"
    /\ s2c # << >>
    /\ \E k \in ReadLens(s2c) :
          LET data == TakeN(s2c, k) IN
          /\ s2c' = DropN(s2c, k)
          /\ IF ExtractProtocolInfo(data).ok
             THEN /\ c2s' = c2s \o MakeOkMessage
                  /\ c_pc' = "connected"
                  /\ c_log' = c_log \o << Ev("rx_proto", data),
                                         Ev("tx_ok", MakeOkMessage) >>
                  /\ UNCHANGED c_open
             ELSE /\ ClientGone("failed", Append(c_log, Ev("rx_bad", data)))
                  /\ UNCHANGED c2s
    /\ UNCHANGED << c_fbuf, wav, c_play, c_hdr, constv, servv, raw_left, raw_sent, pbvars, kvars, rvars >>

\* start_playing -> send_start_playing, lines 107-113 and 195.
ClientSendStartPlaying ==
    /\ c_kind = "client" /\ c_pc = "connected"
    /\ c2s' = c2s \o MakeStartPlayingMessage
    /\ c_pc' = "header"
    /\ c_log' = Append(c_log, Ev("tx_start", MakeStartPlayingMessage))
    /\ UNCHANGED << s2c, c_open, c_fbuf, wav, c_play, c_hdr, constv, servv, raw_left, raw_sent,
                    pbvars, kvars, rvars >>

\* update_audio_header, lines 149-166: one read, extract_wav_header on what
\* it returned, update_format on every sink.  Nothing is sent afterwards.  A
\* panic inside update_format ends the client there, its socket is dropped
\* (no writer and no stream exist then that the unwinding could close).
ClientUpdateAudioHeader ==
    /\ c_kind = "client" /\ c_pc = "header"
    /\ s2c # << >>
    /\ \E k \in ReadLens(s2c) :
          LET data == TakeN(s2c, k)
              r    == ExtractWavHeader(data)
          IN
          /\ s2c' = DropN(s2c, k)
          /\ IF r.ok
             THEN /\ c_hdr' = r.header
                  /\ LET u == UpdateSinks(c_sinks, wav, c_play, r.header)
                     IN /\ wav' = u.wav
                        /\ c_play' = u.play
                        /\ IF u.ok
                           THEN /\ c_log' = Append(c_log, Ev("rx_header", data))
                                               \o u.calls
                                /\ c_pc' = "recv"
                                /\ UNCHANGED c_open
                           ELSE ClientGone("failed",
                                           Append(c_log, Ev("rx_header", data))
                                              \o u.calls
                                              \o << Ev("update_panic", << >>) >>)
             ELSE /\ ClientEnds("failed", Append(c_log, Ev("rx_bad", data)))
                  /\ UNCHANGED << wav, c_play, c_hdr >>
    /\ UNCHANGED << c2s, c_fbuf, constv, servv, raw_left, raw_sent, pbvars, kvars, rvars >>

\* The stream ended (StopPlaying, or end of the byte stream):
\* recv_data_and_write_it returns Ok, FramedRead is dropped with what it had
\* buffered, then end_audio and, when it returned, send_bye_message (lines
\* 202-206).  With a playback sink end_audio runs up to the sink's finalize()
\* and stays in its `play_done_rx.recv()` (cpal.rs line 358): the sinks in
\* front are finalized, the stream still plays, no Bye is sent.  The Err of
\* a finalize() is the Err of end_audio and of start_playing (`?`, line 203):
\* no Bye is sent.
ClientLeavesStream(log) ==
    LET r == FinalizeSinks(c_sinks, wav, c_play, FALSE) IN
    /\ wav' = r.wav
    /\ c_play' = r.play
    /\ c_fbuf' = << >>
    /\ IF r.err
       THEN /\ ClientEnds("failed", log \o r.calls
                                        \o << Ev("finalize_err", << >>) >>)
            /\ UNCHANGED c2s
       ELSE IF r.done
       THEN /\ c2s' = c2s \o MakeByeMessage
            /\ c_pc' = "expect_bye"
            /\ c_log' = log \o r.calls
                          \o << Ev("finalize", << >>),
                                Ev("tx_bye", MakeByeMessage) >>
       ELSE /\ c_pc' = "end_audio"
            /\ c_log' = log \o r.calls
            /\ UNCHANGED c2s
    /\ UNCHANGED c_open

\* The registered sinks from the playback sink on.
RECURSIVE FromPlaySink(_)
FromPlaySink(sinks) ==
    IF sinks = << >> \/ Head(sinks) = "play" THEN sinks
    ELSE FromPlaySink(Tail(sinks))

\* The callback's signal arrives: recv() of the playback sink's finalize()
\* returns (cpal.rs lines 358-365), the stream is paused and dropped, end_audio
\* finalizes the sinks behind it, then send_bye_message; the Err of a sink
\* behind it is the Err of start_playing.  Without a stream no signal ever
\* comes and the client stays inside finalize().
ClientFinalizeReturns ==
    /\ c_kind = "client" /\ c_pc = "end_audio"
    /\ TRUE \in PlayReturns(c_sinks, c_play)
    /\ LET r == FinalizeSinks(FromPlaySink(c_sinks), wav, c_play, TRUE) IN
       /\ wav' = r.wav
       /\ c_play' = r.play
       /\ IF r.err
          THEN /\ ClientEnds("failed", c_log \o Tail(r.calls)
                                           \o << Ev("finalize_err", << >>) >>)
               /\ UNCHANGED c2s
          ELSE /\ c2s' = c2s \o MakeByeMessage
               /\ c_pc' = "expect_bye"
               /\ c_log' = c_log \o Tail(r.calls)
                                 \o << Ev("finalize", << >>),
                                       Ev("tx_bye", MakeByeMessage) >>
               /\ UNCHANGED c_open
    /\ UNCHANGED << s2c, c_fbuf, c_hdr, constv, servv, raw_left, raw_sent,
                    pbvars, kvars, rvars >>

\* What the loop body of recv_data_and_write_it does with one frame, lines
\* 136-145; rest is what FramedRead keeps buffered.  A failing write()
\* returns from the loop: the sinks written to before it keep the payload.
ClientHandlesFrame(b) ==
    LET n       == FrameLen(b)
        payload == SubSeq(b, 5, 4 + n)
        rest    == DropN(b, 4 + n)
        r       == WriteSinks(c_sinks, wav, c_play, payload)
    IN IF IsStopPlayingMessage(payload)
       THEN ClientLeavesStream(Append(c_log, Ev("rx_stop", payload)))
       ELSE IF r.ok
       THEN /\ wav' = r.wav
            /\ c_play' = r.play
            /\ c_fbuf' = rest
            /\ c_log' = c_log \o r.calls \o << Ev("write", payload) >>
            /\ UNCHANGED << c2s, c_pc, c_open >>
       ELSE /\ ClientEnds("failed",
                          c_log \o r.calls \o << Ev("write_err", payload) >>)
            /\ wav' = r.wav
            /\ c_play' = r.play
            /\ c_fbuf' = << >>
            /\ UNCHANGED c2s

\* A socket read inside `framed.next().await`, lines 134-135, that completes
\* neither a frame nor an over-long head: FramedRead keeps what the read
\* returned (any number of the bytes in the socket) and the client waits in
\* the next read, the peer free to write in between.
ClientReadsPart ==
    /\ c_kind = "client" /\ c_pc = "recv"
    /\ ~HasWholeFrame(c_fbuf) /\ ~FrameTooLong(c_fbuf)
    /\ \E k \in 1..Len(s2c) :
          /\ ~HasWholeFrame(c_fbuf \o TakeN(s2c, k))
          /\ ~FrameTooLong(c_fbuf \o TakeN(s2c, k))
          /\ c_fbuf' = c_fbuf \o TakeN(s2c, k)
          /\ s2c' = DropN(s2c, k)
    /\ UNCHANGED << c2s, c_pc, c_open, c_log, wav, c_play, c_hdr, constv, servv,
                    raw_left, raw_sent, pbvars, kvars, rvars >>

\* `framed.next().await` of recv_data_and_write_it, lines 130-148, yielding a
\* frame, and the loop body.  FramedRead decodes from its buffer and reads
\* the socket only while the buffer holds no whole frame; the read that
\* completes the frame may bring any number of the bytes behind it.
ClientNextFrame ==
    /\ c_kind = "client" /\ c_pc = "recv"
    /\ ~FrameTooLong(c_fbuf \o s2c)
    /\ IF HasWholeFrame(c_fbuf)
       THEN /\ ClientHandlesFrame(c_fbuf)
            /\ UNCHANGED s2c
       ELSE /\ HasWholeFrame(c_fbuf \o s2c)
            /\ \E k \in 1..Len(s2c) :
                  /\ HasWholeFrame(c_fbuf \o TakeN(s2c, k))
                  /\ s2c' = DropN(s2c, k)
                  /\ ClientHandlesFrame(c_fbuf \o TakeN(s2c, k))
    /\ UNCHANGED << c_hdr, constv, servv, raw_left, raw_sent, pbvars, kvars, rvars >>

\* What FramedRead holds at the end of the byte stream is nothing: the read
\* buffer is empty, or it held a whole frame head and no byte of the frame
\* (the decoder takes the head out of the buffer as soon as it is whole).
NothingBuffered(b) == b = << >> \/ (Len(b) = 4 /\ ~FrameTooLong(b))

\* framed.next() fails or ends, lines 134-136.
\*   A frame head announcing more than max_frame_length is an error
\*   (`frame?`): the decoder fails as soon as the four bytes of the head are
\*   in FramedRead's buffer.  The read that completed the head may have
\*   brought any number of the bytes behind it; what no read has taken stays
\*   in the socket.
\*   At the end of the byte stream (every byte read, then a read of 0 bytes)
\*   it is None when nothing is buffered (the loop ends as after
\*   StopPlaying) and an error when part of a head or of a frame's bytes is.
\* FramedRead is dropped with what it had buffered.
ClientStreamEnds ==
    /\ c_kind = "client" /\ c_pc = "recv"
    /\ ~HasWholeFrame(c_fbuf)
    /\ \/ /\ \E k \in 0..Len(s2c) :
                /\ FrameTooLong(c_fbuf \o TakeN(s2c, k))
                /\ k > 0 => ~FrameTooLong(c_fbuf)
                /\ s2c' = DropN(s2c, k)
                /\ ClientEnds("failed",
                              Append(c_log, Ev("frame_err",
                                               c_fbuf \o TakeN(s2c, k))))
          /\ UNCHANGED << wav, c_play, c2s >>
       \/ /\ ~FrameTooLong(c_fbuf \o s2c)
          /\ ~HasWholeFrame(c_fbuf \o s2c)
          /\ ~s_open
          /\ ~NothingBuffered(c_fbuf \o s2c)
          /\ ClientEnds("failed", Append(c_log, Ev("frame_err", c_fbuf \o s2c)))
          /\ s2c' = << >>
          /\ UNCHANGED << wav, c_play, c2s >>
       \/ /\ NothingBuffered(c_fbuf \o s2c)
          /\ ~HasWholeFrame(c_fbuf \o s2c)
          /\ ~s_open
          /\ ClientLeavesStream(Append(c_log, Ev("rx_eof", << >>)))
          /\ s2c' = << >>
    /\ c_fbuf' = << >>
    /\ UNCHANGED << c_hdr, constv, servv, raw_left, raw_sent, pbvars, kvars, rvars >>

\* expect_bye_message, lines 168-184: start_playing returns Ok on Bye
\* (play_audio_after_download is None).
ClientExpectBye ==
    /\ c_kind = "client" /\ c_pc = "expect_bye"
    /\ s2c # << >>
    /\ \E k \in ReadLens(s2c) :
          LET data == TakeN(s2c, k) IN
          /\ s2c' = DropN(s2c, k)
          /\ IF CheckByeMessage(data)
             THEN ClientEnds("done", Append(c_log, Ev("rx_bye", data)))
             ELSE ClientEnds("failed", Append(c_log, Ev("rx_bad", data)))
    /\ UNCHANGED << c2s, c_fbuf, wav, c_play, c_hdr, constv, servv, raw_left, raw_sent, pbvars, kvars, rvars >>

\* The caller drops the ClientInterface after start_playing has returned
\* (client/main.rs returns with its result): the socket is closed and the
\* sinks are dropped, an open output file is finalized by the writer's Drop
\* and the playback stream goes.
ClientDropped ==
    /\ c_kind = "client" /\ c_pc \in { "done", "failed" } /\ c_open
    /\ c_open' = FALSE
    /\ wav' = WavDrop(wav)
    /\ c_play' = PlayDrop(c_play)
    /\ UNCHANGED << c2s, s2c, c_pc, c_fbuf, c_hdr, c_log, constv, servv,
                    raw_left, raw_sent, pbvars, kvars, rvars >>

\* --------------------------------------------------------------- raw peers

\* A hello whose magic is not PROTOCOL_MAGIC.
BadMagicHello == << 252, 0, 0, 0, 0, MsgHello >>

\* What a raw client writes: the client's messages, right or wrong, every
\* other message type of the protocol and an undecodable byte.
RawClientMenu ==
    { MakeClientHelloMessage, BadMagicHello, MakeOkMessage,
      MakeStartPlayingMessage, MakeByeMessage, MakeStopPlayingMessage,
      MakeServerHelloMessage,
      AudioHeaderToBytes([sample_rate |-> 100, channels |-> 1,
                          bits_per_sample |-> 16, sample_format |-> "Int"]),
      << 9 >> }

\* The fields of an AudioHeader behind the tag of an Ok message.
OkTaggedHeader == << MsgOk, 100, 1, 16, 0 >>

\* An AudioHeader of 16-bit Float samples whose sample_format index is
\* written in the three-byte form of the varint (251, then 1 as u16).
FloatHeaderWideTag == << MsgAudioHeader, 100, 1, 16, 251, 1, 0 >>

\* What a raw server writes: the server's messages (an AudioHeader of each
\* supported format, a Data frame, the StopPlaying frame, Bye), a header of a
\* depth no sink writes, a header of two channels, a header under a wrong
\* tag, a header the file sink's writer refuses, a Data frame with a byte
\* behind its whole sample and an undecodable byte.
RawServerMenu ==
    { MakeServerHelloMessage,
      AudioHeaderToBytes([sample_rate |-> 100, channels |-> 1,
                          bits_per_sample |-> 16, sample_format |-> "Int"]),
      AudioHeaderToBytes([sample_rate |-> 100, channels |-> 1,
                          bits_per_sample |-> 24, sample_format |-> "Int"]),
      AudioHeaderToBytes([sample_rate |-> 100, channels |-> 2,
                          bits_per_sample |-> 16, sample_format |-> "Int"]),
      AudioHeaderToBytes([sample_rate |-> 100, channels |-> 1,
                          bits_per_sample |-> 32, sample_format |-> "Int"]),
      AudioHeaderToBytes([sample_rate |-> 70000, channels |-> 1,
                          bits_per_sample |-> 32, sample_format |-> "Float"]),
      OkTaggedHeader, FloatHeaderWideTag,
      EncodeFrame(<< 254, 255, 2 >>),
      EncodeFrame(<< 2, 1, 255, 127 >>),
      EncodeFrame(MakeStopPlayingMessage),
      MakeByeMessage, << 9 >> }

\* A raw client writes while the server runs and it has budget, at most one
\* byte ahead of what the server has read: two one-byte control messages may
\* reach the server in one read.
RawClientSend ==
    /\ c_kind = "raw" /\ c_open /\ s_open /\ raw_left > 0
    /\ Len(c2s) <= 1
    /\ \E m \in RawClientMenu : c2s' = c2s \o m
    /\ raw_left' = raw_left - 1
    /\ UNCHANGED << s2c, raw_sent, constv, servv, cliv, pbvars, kvars, rvars >>

RawClientClose ==
    /\ c_kind = "raw" /\ c_open
    /\ c_open' = FALSE
    /\ UNCHANGED << c2s, s2c, c_pc, c_fbuf, wav, c_play, c_hdr, c_log, constv, servv,
                    raw_left, raw_sent, pbvars, kvars, rvars >>

\* The runs of messages a raw server writes before the client has read the
\* first of them: hello and header, header and first frame, two frames, two
\* frames and the stop frame, the stop frame and Bye.
RawServerBursts ==
    LET hdr == AudioHeaderToBytes([sample_rate |-> 100, channels |-> 1,
                                   bits_per_sample |-> 16,
                                   sample_format |-> "Int"])
        f3  == EncodeFrame(<< 254, 255, 2 >>)
        f4  == EncodeFrame(<< 2, 1, 255, 127 >>)
        st  == EncodeFrame(MakeStopPlayingMessage)
    IN { MakeServerHelloMessage \o hdr, hdr \o f4, f4 \o f3, f4 \o f3 \o st,
         st \o MakeByeMessage }

\* A raw server writes its next message while the client runs and it has
\* budget, when the client has read all that was written or when the message
\* continues one of the bursts: one read of the client may then bring several
\* messages, or a message and part of the next.
RawServerSend ==
    /\ s_kind = "raw" /\ s_open /\ c_open /\ raw_left > 0
    /\ \E m \in RawServerMenu :
          /\ s2c = << >> \/ (s2c \o m) \in RawServerBursts
          /\ s2c' = s2c \o m
          /\ raw_sent' = raw_sent \o m
    /\ raw_left' = raw_left - 1
    /\ UNCHANGED << c2s, constv, servv, cliv, pbvars, kvars, rvars >>

RawServerClose ==
    /\ s_kind = "raw" /\ s_open
    /\ s_open' = FALSE
    /\ UNCHANGED << c2s, s2c, s_pc, s_pos, s_log, constv, cliv, raw_left, raw_sent,
                    pbvars, kvars, rvars >>

\* ------------------------------------------- the WAV sink and reader alone

\* Most calls made on one WavFileWrite.
MaxSinkCalls == 4
\* Longest slice passed to one WavFileWrite::write.
MaxSinkWriteLen == 5
\* Longest buffer passed to one WavFileRead::read.
MaxReadBuf == 9

\* The headers a WAV sink is given: the depths write() handles, one it
\* returns Err for, one the writer is not made for and one of two channels.
SinkFormats ==
    { [sample_rate |-> 8000, channels |-> 1, bits_per_sample |-> 16,
       sample_format |-> "Int"],
      [sample_rate |-> 8000, channels |-> 1, bits_per_sample |-> 32,
       sample_format |-> "Int"],
      [sample_rate |-> 8000, channels |-> 1, bits_per_sample |-> 32,
       sample_format |-> "Float"],
      [sample_rate |-> 8000, channels |-> 1, bits_per_sample |-> 24,
       sample_format |-> "Int"],
      [sample_rate |-> 8000, channels |-> 1, bits_per_sample |-> 16,
       sample_format |-> "Float"],
      [sample_rate |-> 8000, channels |-> 2, bits_per_sample |-> 16,
       sample_format |-> "Int"] }

\* One call on the sink, as the history keeps it: the sink before and after.
SinkCall(e, data, before, after) ==
    [ev |-> e, data |-> data, before |-> before, after |-> after]

\* WavFileWrite::update_format, wav.rs lines 189-198: with no writer the file
\* is created and the writer made, or the unwrap panics; with one, todo!()
\* panics.
SinkUpdateFormat ==
    /\ c_kind = "sink" /\ c_pc = "ready"
    /\ Len(c_log) < MaxSinkCalls
    /\ \E h \in SinkFormats :
          LET r == WavUpdateFormat(wav, h) IN
          /\ wav' = r.wav
          /\ c_log' = Append(c_log,
                             SinkCall(IF r.ok THEN "update_format"
                                      ELSE "update_panic", << >>, wav, r.wav))
          /\ c_pc' = IF r.ok THEN c_pc ELSE "panic"
    /\ UNCHANGED << c_kind, s_kind, src, c_sinks, c2s, s2c, c_open, s_open,
                    s_pc, s_pos, s_log, c_fbuf, c_play, c_hdr, raw_left, raw_sent,
                    pbvars, kvars, rvars >>

\* WavFileWrite::write, wav.rs lines 140-180, on a slice of 0..MaxSinkWriteLen
\* bytes: without a writer it panics, an unsupported depth is an Err.
SinkWrite ==
    /\ c_kind = "sink" /\ c_pc = "ready"
    /\ Len(c_log) < MaxSinkCalls
    /\ \E n \in 0..MaxSinkWriteLen :
          LET data == WriteData(n, 3 * Len(c_log))
              r    == WavWrite(wav, data)
          IN IF wav.state # "open"
             THEN /\ c_pc' = "panic"
                  /\ c_log' = Append(c_log, SinkCall("write_panic", data, wav, wav))
                  /\ UNCHANGED wav
             ELSE /\ wav' = r.wav
                  /\ c_log' = Append(c_log,
                                     SinkCall(IF r.ok THEN "write" ELSE "write_err",
                                              data, wav, r.wav))
                  /\ UNCHANGED c_pc
    /\ UNCHANGED << c_kind, s_kind, src, c_sinks, c2s, s2c, c_open, s_open,
                    s_pc, s_pos, s_log, c_fbuf, c_play, c_hdr, raw_left, raw_sent,
                    pbvars, kvars, rvars >>

\* WavFileWrite::finalize, wav.rs lines 182-188: Ok, or the Err of the
\* writer's finalize.
SinkFinalize ==
    /\ c_kind = "sink" /\ c_pc = "ready"
    /\ Len(c_log) < MaxSinkCalls
    /\ LET r == WavFinalize(wav) IN
       /\ wav' = r.wav
       /\ c_log' = Append(c_log,
                          SinkCall(IF r.ok THEN "finalize" ELSE "finalize_err",
                                   << >>, wav, r.wav))
    /\ UNCHANGED << c_kind, s_kind, src, c_sinks, c2s, s2c, c_open, s_open,
                    s_pc, s_pos, s_log, c_pc, c_fbuf, c_play, c_hdr, raw_left, raw_sent,
                    pbvars, kvars, rvars >>

\* WavFileRead::open_file, wav.rs lines 108-115, on one of the files: with
\* the Err of WavReader::open the reader stays without a file.
ReaderOpenFile ==
    /\ s_kind = "reader" /\ src = NoFile
    /\ \E at \in DiskFiles : src' = OpenFile(at)
    /\ s_pos' = 0
    /\ UNCHANGED << c_kind, s_kind, c_sinks, c2s, s2c, c_open, s_open, s_pc,
                    s_log, cliv, raw_left, raw_sent, pbvars, kvars, rvars >>

\* One call of WavFileRead::read, wav.rs lines 82-106, with a buffer of
\* 0..MaxReadBuf bytes; s_log keeps the latest call: the file it read, the
\* buffer length, the position before it and the bytes written to the buffer.
ReaderRead ==
    /\ s_kind = "reader"
    /\ \E buflen \in 0..MaxReadBuf :
          IF src = NoFile
          THEN /\ s_log' = << [ev |-> "read", file |-> src, buflen |-> buflen,
                              pos |-> s_pos, data |-> << >>] >>
               /\ UNCHANGED s_pos
          ELSE IF ReadWidth(src.spec) = 0
          THEN /\ s_log' = << [ev |-> "read_err", file |-> src, buflen |-> buflen,
                              pos |-> s_pos, data |-> << >>] >>
               /\ UNCHANGED s_pos
          ELSE LET r == ReadSamples(src, s_pos, buflen)
               IN /\ s_pos' = r.pos
                  /\ s_log' = << [ev |-> "read", file |-> src, buflen |-> buflen,
                                 pos |-> s_pos, data |-> r.bytes] >>
    /\ UNCHANGED << c_kind, s_kind, src, c_sinks, c2s, s2c, c_open, s_open,
                    s_pc, cliv, raw_left, raw_sent, pbvars, kvars, rvars >>

WavNext ==
    \/ SinkUpdateFormat
    \/ SinkWrite
    \/ SinkFinalize
    \/ ReaderOpenFile
    \/ ReaderRead

\* ------------------------------------------- Server::run and its handlers

\* Most connections the listener accepts.
MaxConns == 2

\* What the peer of one connection writes before it closes, one message per
\* read of the handler: a session of two streams, a session of none, a
\* handshake that fails at the Ok step, a StopPlaying as request, a peer that
\* closes inside a stream and a peer that closes at once.
RunScripts ==
    { << MakeClientHelloMessage, MakeOkMessage, MakeStartPlayingMessage,
         MakeOkMessage, MakeStartPlayingMessage, MakeOkMessage,
         MakeByeMessage >>,
      << MakeClientHelloMessage, MakeOkMessage, MakeByeMessage >>,
      << MakeClientHelloMessage, << 9 >> >>,
      << MakeClientHelloMessage, MakeOkMessage, MakeStopPlayingMessage >>,
      << MakeClientHelloMessage, MakeOkMessage, MakeStartPlayingMessage >>,
      << >> }

\* What may be at the server's file_path: one of the files, or nothing.
RunFiles == DiskFiles \cup { NoFile }

\* The reader of a stream (mutant: the reader of the stream before is used
\* again, at the position it was left at).
OpenPosKept(pos) == pos

\* `WavFileRead::new()` and open_file at the head of send_wav_file, file.rs
\* lines 55-58: a reader at the first sample, whatever was read before.
OpenPos(pos) == 0

\* client_handler entered, server_manager.rs lines 136-143; pos is the
\* position of the WavFileRead of the stream being sent.
NewHandler == [pc |-> "hello", pos |-> 0, log |-> << >>]

\* The connection as tokio::spawn gets it, lines 153-164.
NewConn(script) ==
    [peer |-> script, taken |-> 0, steps |-> 0, h |-> NewHandler, alive |-> TRUE]

\* The handler is in a socket.read.
HandlerReads(pc) == pc \in { "hello", "ok", "request", "stream_ok" }

\* The handler has returned.
HandlerEnded(pc) == pc \in { "failed", "done" }

\* The servers Server::run is run as: "run" with send_file of
\* process_client_request taken as network::file::send_file (send_wav_file),
\* "run_sender" with the send_file server_manager.rs has (WavFileSender).
Runs == { "run", "run_sender" }

\* One step of client_handler (server_manager.rs lines 47-143, file.rs lines
\* 16-66, wav.rs lines 204-228) as a function of the handler's own state, the
\* bytes its read returned (none: the peer has closed) and the file at
\* file_path.
HandlerStep(h, data, f) ==
    LET fail(e) == [h EXCEPT !.pc = "failed", !.log = Append(@, e)] IN
    IF HandlerReads(h.pc) /\ data = << >> THEN fail(Ev("rx_eof", << >>))
    ELSE IF h.pc = "hello"
    THEN [h EXCEPT !.pc = "ok",
                   !.log = @ \o << Ev("rx_hello", data),
                                   Ev("tx_hello", MakeServerHelloMessage) >>]
    ELSE IF h.pc \in { "ok", "stream_ok" }
    THEN IF CheckOkMessage(data)
         THEN [h EXCEPT !.pc = IF h.pc = "ok" THEN "request" ELSE "sending",
                        !.log = Append(@, Ev("rx_ok", data))]
         ELSE fail(Ev("rx_bad", data))
    ELSE IF h.pc = "request"
    THEN IF ExtractMessageType(data) = MsgBye
         THEN [h EXCEPT !.pc = "done",
                        !.log = @ \o << Ev("rx_bye", data),
                                        Ev("tx_bye", MakeByeMessage) >>]
         ELSE IF ExtractMessageType(data) = MsgStartPlaying
         THEN IF OpenFile(f) = NoFile
              THEN [h EXCEPT !.pc = "failed",
                             !.log = @ \o << Ev("rx_start", data),
                                             Ev("open_err", << >>) >>]
              ELSE IF s_kind = "run_sender"
              THEN [h EXCEPT !.pc = "raw_sending", !.pos = OpenPos(h.pos),
                             !.log = Append(@, Ev("rx_start", data))]
              ELSE [h EXCEPT !.pc = "stream_ok", !.pos = OpenPos(h.pos),
                             !.log = @ \o << Ev("rx_start", data),
                                             Ev("tx_header",
                                                AudioHeaderToBytes(
                                                   UpdateWavspec(f.spec))) >>]
         ELSE fail(Ev("rx_bad", data))
    ELSE IF h.pc = "sending"
    THEN IF ReadWidth(f.spec) = 0
         THEN fail(Ev("read_err", << >>))
         ELSE LET r == ReadSamples(f, h.pos, BUFFER_LEN)
                  n == Len(r.bytes)
              IN [h EXCEPT !.pos = r.pos,
                           !.pc = IF LoopAgain(n) THEN "sending" ELSE "stop",
                           !.log = IF n = 0 THEN @
                                   ELSE Append(@, Ev("tx_data", r.bytes))]
    ELSE IF h.pc = "raw_sending"
    THEN IF ReadWidth(f.spec) = 0
         THEN fail(Ev("read_err", << >>))
         ELSE LET r == ReadSamples(f, h.pos, BUFFER_LEN)
                  n == Len(r.bytes)
              IN [h EXCEPT !.pos = r.pos,
                           !.pc = IF LoopAgain(n) THEN "raw_sending"
                                  ELSE "request",
                           !.log = IF n = 0 THEN @
                                   ELSE Append(@, Ev("tx_raw", r.bytes))]
    ELSE [h EXCEPT !.pc = "request",
                   !.log = Append(@, Ev("tx_stop", MakeStopPlayingMessage))]

\* One step of the handler of connection c, reading its file at position pos:
\* a read returns the peer's next message, or 0 bytes once the peer has
\* written its last.
ConnStep(c, pos, f) ==
    LET reads == HandlerReads(c.h.pc)
        data  == IF reads /\ c.taken < Len(c.peer) THEN c.peer[c.taken + 1]
                 ELSE << >>
    IN [c EXCEPT !.h = HandlerStep([c.h EXCEPT !.pos = pos], data, f),
                 !.taken = IF reads /\ data # << >> THEN @ + 1 ELSE @,
                 !.steps = @ + 1]

\* The reader of a handler (mutant: one WavFileRead for all the handlers).
ReaderPosShared(cs, i) == cs[1].h.pos

\* `let mut audio_reader = WavFileRead::new()` in send_wav_file, file.rs
\* lines 54-56: each stream of each handler reads through a reader of its own.
ReaderPos(cs, i) == cs[i].h.pos

\* listener.accept() and tokio::spawn of the handler, lines 153-164.
Accept ==
    /\ s_kind \in Runs /\ listener = "accepting"
    /\ Len(conns) < MaxConns
    /\ \E script \in RunScripts : conns' = Append(conns, NewConn(script))
    /\ UNCHANGED << listener, pbvars, svars, kvars >>

\* listener.accept() returns Err: `.expect("Failed to accept connection")`
\* (lines 154-157) panics and Server::run is left.  Where run is awaited by
\* the main task of the runtime (server/main.rs line 75) the runtime shuts
\* down and every handler still running is dropped at its await (abort);
\* where run is awaited by a task of its own the handlers spawned go on.
AcceptFails ==
    /\ s_kind \in Runs /\ listener = "accepting"
    /\ listener' = "failed"
    /\ \E abort \in BOOLEAN :
          conns' = [i \in DOMAIN conns |->
                      IF abort /\ ~HandlerEnded(conns[i].h.pc)
                      THEN [conns[i] EXCEPT !.alive = FALSE]
                      ELSE conns[i]]
    /\ UNCHANGED << pbvars, svars, kvars >>

\* The runtime polls one of the spawned handlers.
HandlerRuns ==
    /\ s_kind \in Runs
    /\ \E i \in DOMAIN conns :
          /\ conns[i].alive
          /\ ~HandlerEnded(conns[i].h.pc)
          /\ conns' = [conns EXCEPT
                          ![i] = ConnStep(conns[i], ReaderPos(conns, i), src)]
    /\ UNCHANGED << listener, pbvars, svars, kvars >>

RunNext ==
    \/ Accept
    \/ AcceptFails
    \/ HandlerRuns

\* ------------------------------------------- the stream's frames on their own

\* Files whose first sample starts with the byte of MessageType::StopPlaying,
\* in each format the reader handles.
StopLikeFiles ==
    { [spec |-> [sample_rate |-> 8000, channels |-> 1, bits_per_sample |-> d[1],
                 sample_format |-> d[2]],
       samples |-> smp] :
         d \in { << 16, "Int" >>, << 32, "Int" >>, << 32, "Float" >> },
         smp \in { << MsgStopPlaying >>, << MsgStopPlaying, MsgStopPlaying >>,
                   << 256 + MsgStopPlaying, 0, MsgStopPlaying >> } }

\* The frame recv_data_and_write_it gets for what framed.send wrote: the
\* payload FramedRead hands over.
FramePayload(wire) == SubSeq(wire, 5, 4 + FrameLen(wire))

\* How the loop body of recv_data_and_write_it takes a payload,
\* client_manager.rs lines 136-145: the end of the stream, or audio for the
\* sinks.
ClassifyPayload(payload) ==
    IF IsStopPlayingMessage(payload) THEN "stop" ELSE "data"

\* A chunk read_and_send sends (file.rs lines 41-49) from some position of a
\* file, as the client's loop classifies it.
ClassifyDataFrame ==
    /\ k_out.op = "none" /\ k_in # NoHeader
    /\ \E f \in SourceFiles \cup StopLikeFiles : \E pos \in 0..Len(f.samples) :
          /\ ReadWidth(f.spec) # 0
          /\ LET r == ReadSamples(f, pos, BUFFER_LEN)
                 payload == FramePayload(EncodeFrame(r.bytes))
             IN /\ r.bytes # << >>
                /\ k_out' = [op |-> "classify_data", bytes |-> payload,
                             outcome |-> ClassifyPayload(payload),
                             header |-> UpdateWavspec(f.spec)]
    /\ UNCHANGED << k_in, pbvars, svars, rvars >>

\* The frame of send_stop_playing_message (file.rs lines 16-22), as the
\* client's loop classifies it.
ClassifyStopFrame ==
    /\ k_out.op = "none" /\ k_in # NoHeader
    /\ LET payload == FramePayload(EncodeFrame(MakeStopPlayingMessage))
       IN k_out' = [op |-> "classify_stop", bytes |-> payload,
                    outcome |-> ClassifyPayload(payload),
                    header |-> NoHeader]
    /\ UNCHANGED << k_in, pbvars, svars, rvars >>

\* Byte strings given to check_client_hello_message: the client's hello, the
\* documented layout (magic, then type), and strings that differ from the
\* hello in length, magic or type.
HelloCandidates ==
    { MakeClientHelloMessage,
      PROTOCOL_MAGIC \o << MsgHello >>,
      PROTOCOL_MAGIC \o << MsgHello, MsgHello >>,
      BadMagicHello,
      << 252 >> \o PROTOCOL_MAGIC \o << MsgOk >>,
      MakeClientHelloMessage \o << MsgHello >>,
      TakeN(MakeClientHelloMessage, 5),
      << 5, 0, 0, 0, MsgHello, MsgHello >>,
      << 251, 195, 178, 161, MsgHello, MsgHello >>,
      << >> }

\* check_client_hello_message applied to a byte string.
CheckClientHello ==
    /\ k_out.op = "none" /\ k_in # NoHeader
    /\ \E data \in HelloCandidates :
          k_out' = [op |-> "check_hello", bytes |-> data,
                    outcome |-> IF CheckClientHelloMessage(data) THEN "true"
                                ELSE "false",
                    header |-> NoHeader]
    /\ UNCHANGED << k_in, pbvars, svars, rvars >>

CodecNext ==
    \/ EncodeDecodeHeader
    \/ WavspecThroughHeader
    \/ DecodeHeaderPrefix
    \/ DecodeProtocolInfoPrefix
    \/ DecodeMessageTypePrefix
    \/ ClassifyDataFrame
    \/ ClassifyStopFrame
    \/ CheckClientHello

\* ------------------------------------------------------------ specification

\* The session variables while only the playback sink is looked at.
SessionIdle ==
    /\ c_kind = "none" /\ s_kind = "none"
    /\ src = NoFile /\ c_sinks = << >>
    /\ c2s = << >> /\ s2c = << >>
    /\ c_open = FALSE /\ s_open = FALSE
    /\ s_pc = "none" /\ s_pos = 0 /\ s_log = << >>
    /\ c_pc = "none" /\ c_fbuf = << >> /\ wav = NewWav /\ c_play = NewPlay /\ c_hdr = NoHeader
    /\ c_log = << >>
    /\ raw_left = 0 /\ raw_sent = << >>

\* After TcpStream::connect / listener.accept: both handlers at their first
\* step, nothing in flight.
Init ==
    /\ PBInit
    /\ CodecIdle
    /\ \E kinds \in { << "client", "server" >>, << "raw", "server" >>,
                       << "client", "raw" >>, << "raw", "sender" >>,
                       << "client", "common" >>, << "raw", "common" >> } :
          c_kind = kinds[1] /\ s_kind = kinds[2]
    /\ src = NoFile
    /\ c_sinks \in (IF c_kind = "client"
                    THEN { << >>, << "file" >>, << "file", "play" >>,
                           << "play", "file" >> }
                    ELSE { << >> })
    /\ c2s = << >> /\ s2c = << >>
    /\ c_open = TRUE /\ s_open = TRUE
    /\ s_pc = (IF s_kind = "raw" THEN "raw" ELSE "hello")
    /\ s_pos = 0 /\ s_log = << >>
    /\ c_pc = (IF c_kind = "client" THEN "start" ELSE "raw")
    /\ c_fbuf = << >>
    /\ wav \in (IF \E k \in DOMAIN c_sinks : c_sinks[k] = "file"
                THEN { NewWav, NoDirWav } ELSE { NewWav })
    /\ c_play = NewPlay /\ c_hdr = NoHeader /\ c_log = << >>
    /\ raw_left = (IF "raw" \in { c_kind, s_kind } THEN MaxRawSends ELSE 0)
    /\ raw_sent = << >>

Next ==
    \/ ServerExpectClientHello
    \/ ServerReadsEof
    \/ ServerExpectOk
    \/ ServerExpectMessageType
    \/ ServerStreamExpectOk
    \/ ServerReadAndSend
    \/ ServerSendStop
    \/ SenderReadAndSend
    \/ ClientSendHello
    \/ ClientReadsEof
    \/ ClientExpectProtocolInfo
    \/ ClientSendStartPlaying
    \/ ClientUpdateAudioHeader
    \/ ClientReadsPart
    \/ ClientNextFrame
    \/ ClientStreamEnds
    \/ ClientFinalizeReturns
    \/ ClientExpectBye
    \/ ClientDropped
    \/ RawClientSend
    \/ RawClientClose
    \/ RawServerSend
    \/ RawServerClose

Spec == Init /\ [][Next]_vars

\* The playback sink on its own.
InitPB == PBInit /\ SessionIdle /\ CodecIdle

SpecPB == InitPB /\ [][PBNext]_vars

\* A WavFileWrite sink, or a WavFileRead reader, on its own.
InitWav ==
    /\ PBInit
    /\ CodecIdle
    /\ \E kinds \in { << "sink", "none" >>, << "none", "reader" >> } :
          c_kind = kinds[1] /\ s_kind = kinds[2]
    /\ src = NoFile /\ c_sinks = << >>
    /\ c2s = << >> /\ s2c = << >>
    /\ c_open = FALSE /\ s_open = FALSE
    /\ s_pc = "none" /\ s_pos = 0 /\ s_log = << >>
    /\ c_pc = (IF c_kind = "sink" THEN "ready" ELSE "none")
    /\ c_fbuf = << >>
    /\ wav \in (IF c_kind = "sink" THEN { NewWav, NoDirWav } ELSE { NewWav })
    /\ c_play = NewPlay /\ c_hdr = NoHeader
    /\ c_log = << >>
    /\ raw_left = 0 /\ raw_sent = << >>

SpecWav == InitWav /\ [][WavNext]_vars

\* Server::run with the file found at file_path: no connection yet.
InitRun ==
    /\ PBInit
    /\ k_in = NoHeader /\ k_out = NoOutcome
    /\ conns = << >> /\ listener = "accepting"
    /\ c_kind = "none" /\ s_kind \in Runs
    /\ src \in RunFiles /\ c_sinks = << >>
    /\ c2s = << >> /\ s2c = << >>
    /\ c_open = FALSE /\ s_open = FALSE
    /\ s_pc = "none" /\ s_pos = 0 /\ s_log = << >>
    /\ c_pc = "none" /\ c_fbuf = << >> /\ wav = NewWav /\ c_play = NewPlay
    /\ c_hdr = NoHeader /\ c_log = << >>
    /\ raw_left = 0 /\ raw_sent = << >>

SpecRun == InitRun /\ [][RunNext]_vars

\* The conversions on their own, applied to every spec of CodecSpecs.
InitCodec ==
    /\ PBInit /\ SessionIdle
    /\ k_in \in CodecSpecs /\ k_out = NoOutcome
    /\ conns = << >> /\ listener = "none"

SpecCodec == InitCodec /\ [][CodecNext]_vars

\* ===========================================================================
\* Claims about the session (checked under Spec)
\* ===========================================================================

\* ClientInterface against Server::client_handler, no raw peer.
HonestSession == c_kind = "client" /\ s_kind = "server"

\* The client is blocked in a read: nothing to read and the peer has not
\* closed.
ClientWaits ==
    /\ c_open /\ s_open /\ s2c = << >>
    /\ \/ c_pc \in { "proto", "header", "expect_bye" }
       \/ c_pc = "recv" /\ ~HasWholeFrame(c_fbuf) /\ ~FrameTooLong(c_fbuf)

\* The server handler is blocked in a read.
ServerWaits ==
    /\ s_open /\ c_open /\ c2s = << >>
    /\ s_pc \in { "hello", "ok", "request", "stream_ok" }

\* The events of log whose name is in names, in order.
RECURSIVE EventsIn(_, _)
EventsIn(log, names) ==
    IF log = << >> THEN << >>
    ELSE IF Head(log).ev \in names
    THEN << Head(log) >> \o EventsIn(Tail(log), names)
    ELSE EventsIn(Tail(log), names)

\* The last event of a log, or none.
LastEv(log) == IF log = << >> THEN "none" ELSE log[Len(log)].ev

\* What send_wav_file writes for the file f behind the handshake, file.rs
\* lines 55-71: the AudioHeader of the file's spec, one Data frame per
\* non-empty chunk read_and_send reads, the StopPlaying frame.
RECURSIVE DataFramesOf(_, _)
DataFramesOf(f, pos) ==
    LET r == ReadSamples(f, pos, BUFFER_LEN)
        n == Len(r.bytes)
    IN IF n = 0 THEN << >>
       ELSE EncodeFrame(r.bytes)
            \o (IF LoopAgain(n) THEN DataFramesOf(f, r.pos) ELSE << >>)

StreamOfFile(f) ==
    AudioHeaderToBytes(UpdateWavspec(f.spec))
       \o DataFramesOf(f, 0)
       \o EncodeFrame(MakeStopPlayingMessage)

\* The source files in a supported format, and 16-bit files of one and of
\* two channels at the sample rate of the 16-bit headers a raw server
\* writes.
SupportedFiles ==
    { f \in SourceFiles : ReadWidth(f.spec) # 0 }
    \cup { [spec |-> [sample_rate |-> 100, channels |-> c,
                      bits_per_sample |-> 16, sample_format |-> "Int"],
            samples |-> ss] : c \in { 1, 2 },
                              ss \in { << >>, << 258, 32767 >> } }

\* The handler's log holds one whole stream and nothing behind it but, with
\* bye, the Bye exchange.
OneStreamSent(bye) ==
    /\ Len(EventsIn(s_log, { "tx_header" })) = 1
    /\ Len(EventsIn(s_log, { "tx_stop" })) = 1
    /\ LastEv(s_log) = (IF bye THEN "tx_bye" ELSE "tx_stop")

\* The client's read of the AudioHeader returned the header of f and no
\* byte behind it: the peer, as the handler does, wrote the first frame only
\* after the client's Ok.
HeaderReadAlone(f) ==
    \A i \in DOMAIN c_log :
       c_log[i].ev = "rx_header"
          => c_log[i].data = AudioHeaderToBytes(UpdateWavspec(f.spec))

C2_NoMutualWait == ~(HonestSession /\ ClientWaits /\ ServerWaits)

\* The streaming grammar of the handler's log, as a state machine over the
\* event names: "pre" handshake, "idle" waiting for a request, "hdr" a
\* StartPlaying was read, "stream" the AudioHeader was sent, "bye" the
\* client's Bye was read, "end" nothing more may be sent.
StreamStep(phase, e) ==
    IF e \in { "rx_bad", "rx_eof", "open_err", "read_err" } /\ phase # "end"
    THEN "end"
    ELSE IF phase = "pre" /\ e \in { "rx_hello", "tx_hello" } THEN "pre"
    ELSE IF phase = "pre" /\ e = "rx_ok" THEN "idle"
    ELSE IF phase = "idle" /\ e = "rx_start" THEN "hdr"
    ELSE IF phase = "hdr" /\ e = "tx_header" THEN "stream"
    ELSE IF phase = "stream" /\ e \in { "rx_ok", "tx_data" } THEN "stream"
    ELSE IF phase = "stream" /\ e = "tx_stop" THEN "idle"
    ELSE IF phase = "idle" /\ e = "rx_bye" THEN "bye"
    ELSE IF phase = "bye" /\ e = "tx_bye" THEN "end"
    ELSE "violation"

RECURSIVE StreamPhase(_, _)
StreamPhase(phase, log) ==
    IF log = << >> THEN phase
    ELSE StreamPhase(StreamStep(phase, Head(log).ev), Tail(log))

\* C3: on every connection, what the handler sends in answer to one
\* StartPlaying is one AudioHeader, then Data frames, then one StopPlaying, in
\* this order: a Data frame is sent only between the AudioHeader and the
\* StopPlaying of its stream, nothing else is sent for the stream, the handler
\* takes the next request only after the StopPlaying, and Bye is sent only
\* after the client's Bye was received.
C3_StreamOrder == StreamPhase("pre", s_log) # "violation"

\* The events of a handler's log that are an audio message sent: an
\* AudioHeader, a Data frame, a header-prefixed RawData message.
AudioEvents == { "tx_header", "tx_data", "tx_raw" }

\* The log holds an audio message sent.
AudioSent(log) == \E i \in DOMAIN log : log[i].ev \in AudioEvents

\* C4: an audio message is sent only after the handler has read the client's
\* hello and then read exactly the Ok message; a handler that ended in the
\* handshake (peer closed, or the bytes read at the Ok step are not the Ok
\* message) has sent no audio message.
C4_NoAudioBeforeHandshake ==
    /\ \A i \in DOMAIN s_log :
          s_log[i].ev \in AudioEvents =>
             \E j \in 1..(i - 1) : \E k \in (j + 1)..(i - 1) :
                /\ s_log[j].ev = "rx_hello"
                /\ s_log[k].ev = "rx_ok"
                /\ s_log[k].data = MakeOkMessage
    /\ ( /\ s_pc = "failed"
         /\ ~\E k \in DOMAIN s_log : s_log[k].ev = "rx_ok" )
       => ~AudioSent(s_log)

\* C4 witness: the handler ended at the Ok step on bytes that are not the Ok
\* message, after the peer had gone on to write a StartPlaying.
C4_Witness ==
    /\ s_pc = "failed"
    /\ Len(s_log) = 3
    /\ s_log[1].ev = "rx_hello"
    /\ s_log[3].ev = "rx_bad"
    /\ s_log[3].data = MakeOkMessage \o MakeStartPlayingMessage

\* A hello message whose magic number is not PROTOCOL_MAGIC.
WrongMagicHello(data) ==
    /\ Len(data) = Len(MakeClientHelloMessage)
    /\ data[Len(data)] = MsgHello
    /\ TakeN(data, Len(data) - 1) # TakeN(MakeClientHelloMessage, Len(data) - 1)

\* C5: on a connection whose first message is a Hello with a wrong magic
\* number the server never sends an AudioHeader.
C5_WrongMagicRefused ==
    ( /\ s_log # << >>
      /\ s_log[1].ev = "rx_hello"
      /\ WrongMagicHello(s_log[1].data) )
    => ~\E i \in DOMAIN s_log : s_log[i].ev = "tx_header"

\* ===========================================================================
\* Claims about the playback sink (checked under SpecPB)
\* ===========================================================================

\* C6: in every reachable state the bytes the callback has consumed plus the
\* bytes in the queue are as many as the bytes passed to write() and appended:
\* no byte is dropped.
C6_ByteConservation == Len(played) + Len(buf) = Len(pushed)

\* C6 witness: several writes happened, part of the bytes was consumed and
\* part is still queued.
C6_Witness == nwrites >= 2 /\ Len(played) > 0 /\ Len(buf) > 0

\* C7: the samples the callback produced from queued data are the decoding of
\* the pushed bytes, taken from the front in push order; what is not yet
\* played is exactly what is queued, and whole samples only are consumed.
C7_FifoOrder ==
    /\ pushed = played \o buf
    /\ out = DecodeAllLe(TakeN(pushed, Len(played)), cfg.sample_size)
    /\ cfg.sample_size > 0 => Len(played) % cfg.sample_size = 0

\* C7 witness: samples of at least two writes were played, with an underrun
\* frame in the latest invocation and bytes still queued.
C7_Witness ==
    /\ nwrites >= 2
    /\ Len(out) >= 2
    /\ Len(played) > MaxWriteLen
    /\ \E i \in DOMAIN frames : frames[i].before < frames[i].need

\* C8: a frame processed while the queue holds fewer than channels x
\* bytes_per_sample bytes is all silence and removes no byte; the callback is
\* never blocked by the state of the queue.
C8_UnderrunSilence ==
    /\ \A i \in DOMAIN frames :
          frames[i].before < frames[i].need =>
             /\ \A k \in DOMAIN frames[i].samples :
                   frames[i].samples[k] = EQUILIBRIUM
             /\ Len(frames[i].samples) = cfg.channels
             /\ frames[i].after = frames[i].before
    /\ stream = "playing" => ENABLED Callback

\* C8 witness: an underrun frame was processed while a partial frame was
\* queued.
C8_Witness ==
    \E i \in DOMAIN frames :
        /\ frames[i].before < frames[i].need
        /\ frames[i].before > 0

\* C9 (as claimed): one drain signal per empty-to-non-empty-to-empty cycle:
\* once the queue has been drained, as many signals were sent as cycles were
\* completed.
C9_SignalPerCycle == cycles >= 1 => sig_total = cycles

\* C10 (as claimed): when finalize() returns, the queue is empty.
C10_FinalizeDrained == fin_left \in {-1, 0}

\* C11: the callback sends a drain signal only when the queue is empty and
\* at least one byte has been pushed before; an invocation that runs between
\* the start of the stream and the first append sends none.
C11_SignalOnlyAfterPush ==
    /\ sig_total > 0 => Len(pushed) > 0
    /\ \A i \in DOMAIN frames : frames[i].signal => frames[i].after = 0

\* C12: a finalize() waiting for the drain signal can still be released by
\* the callbacks to come: a signal is in the channel, or the stream exists,
\* has not yet signalled and holds whole frames only (so that it drains).
\* This holds after every sequence of write() calls, the empty one included.
C12_FinalizeCanReturn ==
    wpc = "finalize" =>
       \/ play_done > 0
       \/ /\ stream = "playing"
          /\ ~notified
          /\ Len(buf) % (cfg.channels * cfg.sample_size) = 0

\* C13: once finalize() has returned the sink is inert: no step changes the
\* queue, and every write() returns an error at once.
C13_InertAfterFinalize ==
    [][ fin_left >= 0 =>
           /\ buf' = buf
           /\ nwrites' # nwrites => (last_ret' = "err" /\ wpc' = "idle") ]_vars

\* C14: an update_format() after the first write() has started streaming is
\* rejected with an error and leaves the stored format unchanged.
C14_UpdateRejectedAfterStart ==
    [][ (nupdates' # nupdates /\ ~first_play) =>
           (last_ret' = "err" /\ header' = header) ]_vars

\* C15: the callback holds the queue lock for one queue mutation only: the
\* frames processed under one hold of the lock (one invocation in the code)
\* pop at most one frame from the queue.
C15_OneMutationPerLock ==
    Cardinality({ i \in DOMAIN frames : frames[i].after < frames[i].before }) <= 1

\* ===========================================================================
\* Claims about the header conversions (checked under SpecCodec)
\* ===========================================================================

\* C16: for every AudioHeader of the supported matrix, extract_wav_header
\* applied to the bytes of audio_header_to_bytes returns a header, equal to
\* the original in sample rate, channels, bits per sample and sample kind.
C16_HeaderRoundTrip ==
    k_out.op = "header" =>
       /\ k_out.outcome = "some"
       /\ k_out.header.sample_rate = k_in.sample_rate
       /\ k_out.header.channels = k_in.channels
       /\ k_out.header.bits_per_sample = k_in.bits_per_sample
       /\ k_out.header.sample_format = k_in.sample_format

\* C16 witness: a header whose sample rate takes the five-byte form and
\* whose channel byte is above the one-byte range of the variable-length
\* encoding went through encoding and decoding.
C16_Witness ==
    /\ k_out.op = "header"
    /\ k_in.sample_rate >= 65536
    /\ k_in.channels = 255
    /\ k_in.sample_format = "Float"
    /\ Len(k_out.bytes) = 9

\* C17: update_wavspec followed by to_wavspec returns the WAV spec it was
\* given, channel count and sample rate included, for every channel count
\* of the 16-bit range.
C17_WavspecRoundTrip ==
    k_out.op = "wavspec" => k_out.header = k_in

\* C20: a decoder applied to a strict prefix of a valid encoded message, the
\* empty prefix included, returns a failure: it neither panics nor returns a
\* message.
C20_PrefixIsFailure ==
    k_out.op = "prefix" => k_out.outcome = "none"

\* ===========================================================================
\* Claims about formats and chunking in a session (checked under Spec)
\* ===========================================================================

\* C18: when the source file's format is outside Int 16-bit, Int 32-bit and
\* Float 32-bit, the client accepts no AudioHeader for it and no sink
\* receives update_format or write: no output file is created.
C18_UnsupportedRejected ==
    ( /\ HonestSession
      /\ src # NoFile
      /\ ReadWidth(src.spec) = 0 )
    => /\ c_hdr = NoHeader
       /\ wav.state \in { "new", "nodir" }
       /\ EventsIn(c_log, { "rx_header", "write" }) = << >>

\* What a handler took as messages, one per read, and what its peer wrote
\* as messages, one per write.
ServerTook == EventsIn(s_log, { "rx_hello", "rx_ok", "rx_start", "rx_bye",
                                "rx_bad" })

ClientWrote == EventsIn(c_log, { "tx_hello", "tx_ok", "tx_start", "tx_bye" })

ClientTook == EventsIn(c_log, { "rx_proto", "rx_header", "rx_bye", "rx_bad" })

ServerWrote == EventsIn(s_log, { "tx_hello", "tx_header", "tx_bye" })

\* a's messages are, one by one, the first messages of b.
SameMessages(a, b) ==
    /\ Len(a) <= Len(b)
    /\ \A i \in DOMAIN a : a[i].data = b[i].data

\* C19: however the bytes are chunked across reads, each receiver recovers
\* exactly the messages its peer sent, in order: the bytes of the i-th
\* message a side takes are the bytes of the i-th message the other wrote.
C19_ChunkingIndependent ==
    HonestSession =>
       /\ SameMessages(ServerTook, ClientWrote)
       /\ SameMessages(ClientTook, ServerWrote)

\* ===========================================================================
\* Claims about errors and sinks in a session (checked under Spec)
\* ===========================================================================

\* C21: when the read of an expect-step returns 0 bytes the session is closed
\* cleanly: neither the handler nor the client ends with an error on it.
C21_EofIsCleanClose ==
    /\ LastEv(s_log) = "rx_eof" => s_pc # "failed"
    /\ LastEv(c_log) = "rx_eof" => c_pc # "failed"

\* The i-th event of the handler's log is a read made while waiting for a
\* request (after the handshake or after a stream).  Behind the handshake
\* WavFileSender::send_file reads nothing: every read is one for a request.
RequestRead(i) ==
    /\ s_log[i].ev \in { "rx_start", "rx_bye", "rx_bad" }
    /\ IF s_kind = "sender"
       THEN \E j \in 1..(i - 1) : s_log[j].ev = "rx_ok"
       ELSE StreamPhase("pre", SubSeq(s_log, 1, i - 1)) = "idle"

\* C22: a handler waiting for a request takes a message as StartPlaying
\* exactly when its first byte is the StartPlaying tag and as Bye exactly when
\* it is the Bye tag; on every other first byte (Hello, Ok, StopPlaying,
\* AudioHeader, or no message type at all) the handler ends with an error and
\* that read is the last thing it does on the connection.
C22_OnlyStartOrBye ==
    \A i \in DOMAIN s_log :
       RequestRead(i) =>
          LET first == s_log[i].data[1] IN
          /\ s_log[i].ev = "rx_start" <=> first = MsgStartPlaying
          /\ s_log[i].ev = "rx_bye" <=> first = MsgBye
          /\ first \notin { MsgStartPlaying, MsgBye } =>
                /\ i = Len(s_log)
                /\ s_pc = "failed"
                /\ ~s_open

\* C22 witness: after a whole stream the handler read a StopPlaying as the
\* next request and ended on it.
C22_Witness ==
    /\ s_pc = "failed"
    /\ \E j \in DOMAIN s_log : s_log[j].ev = "tx_stop"
    /\ RequestRead(Len(s_log))
    /\ s_log[Len(s_log)].data = MakeStopPlayingMessage

\* The write() calls the client made on its sinks, the frames it wrote to
\* every sink, and the frames a sink refused.
SinkWrites == EventsIn(c_log, { "file.write", "play.write" })

FramesWritten == EventsIn(c_log, { "write" })

FramesRefused == EventsIn(c_log, { "write_err" })

\* a is the beginning of b.
IsPrefix(a, b) == Len(a) <= Len(b) /\ a = SubSeq(b, 1, Len(a))

\* The lengths of the data of the events of a log, added up.
RECURSIVE DataLen(_)
DataLen(log) ==
    IF log = << >> THEN 0 ELSE Len(Head(log).data) + DataLen(Tail(log))

\* Every byte a handler wrote, in order, from what its log says it sent.
RECURSIVE WireOf(_)
WireOf(log) ==
    IF log = << >> THEN << >>
    ELSE LET e == Head(log)
         IN (IF e.ev \in { "tx_hello", "tx_header", "tx_bye" } THEN e.data
             ELSE IF e.ev \in { "tx_data", "tx_stop" } THEN EncodeFrame(e.data)
             ELSE IF e.ev = "tx_raw"
             THEN MakeFullMessage(UpdateWavspec(src.spec), e.data)
             ELSE << >>)
            \o WireOf(Tail(log))

\* Every byte the server side wrote, and the bytes of them the client has
\* taken from its socket.
ServerBytes == IF s_kind = "raw" THEN raw_sent ELSE WireOf(s_log)

ArrivedBytes == TakeN(ServerBytes, Len(ServerBytes) - Len(s2c))

\* The client has taken an AudioHeader and entered recv_data_and_write_it.
EnteredStream ==
    /\ \E i \in DOMAIN c_log : c_log[i].ev = "rx_header"
    /\ \A i \in DOMAIN c_log : c_log[i].ev # "update_panic"

\* The bytes the client has taken from its socket behind the two reads of
\* the handshake and of the header.
StreamArrived ==
    IF EnteredStream
    THEN DropN(ArrivedBytes, DataLen(EventsIn(c_log, { "rx_proto", "rx_header" })))
    ELSE << >>

\* The payloads of the whole frames at the head of b, up to the first
\* StopPlaying frame.
RECURSIVE DataPayloads(_)
DataPayloads(b) ==
    IF ~HasWholeFrame(b) THEN << >>
    ELSE LET payload == SubSeq(b, 5, 4 + FrameLen(b))
         IN IF IsStopPlayingMessage(payload) THEN << >>
            ELSE << payload >> \o DataPayloads(DropN(b, 4 + FrameLen(b)))

\* One write() per sink, in registration order, for each of the payloads.
RECURSIVE FanOut(_)
FanOut(payloads) ==
    IF payloads = << >> THEN << >>
    ELSE [j \in DOMAIN c_sinks |-> Ev(c_sinks[j] \o ".write", Head(payloads))]
         \o FanOut(Tail(payloads))

\* C24: every Data payload that has arrived at the client before a
\* StopPlaying frame is passed to write() of every registered sink, the
\* payloads in arrival order and for each payload the sinks in registration
\* order: the write() calls made are the first of these at any time, and all
\* of them once the client has left the stream; with no sink registered the
\* client that has read StopPlaying has gone on to send Bye.
C24_FanOut ==
    c_kind = "client" =>
       /\ IsPrefix(SinkWrites, FanOut(DataPayloads(StreamArrived)))
       /\ c_pc \in { "end_audio", "expect_bye", "done", "failed" }
             => SinkWrites = FanOut(DataPayloads(StreamArrived))
       /\ c_sinks = << >> =>
             ((\E i \in DOMAIN c_log : c_log[i].ev = "rx_stop")
                 => \E i \in DOMAIN c_log : c_log[i].ev = "tx_bye")

\* C28: when a session with a playback sink ends during streaming on a
\* framing error of the socket or on a failing write(), finalize() was
\* invoked on the playback sink and its stream is stopped.
C28_FinalizeReachesPlayback ==
    ( /\ c_pc = "failed"
      /\ LastEv(c_log) \in { "frame_err", "write_err" }
      /\ \E j \in DOMAIN c_sinks : c_sinks[j] = "play" )
    => /\ \E i \in DOMAIN c_log : c_log[i].ev = "play.finalize"
       /\ c_play.stream = "none"

\* C29: the client sends Bye only after it has read StopPlaying.
C29_ByeOnlyAfterStop ==
    \A i \in DOMAIN c_log :
       c_log[i].ev = "tx_bye" =>
          \E j \in 1..(i - 1) : c_log[j].ev = "rx_stop"

\* C30: what the client takes as ProtocolInfo is tagged Hello and what it
\* takes as the audio header is tagged AudioHeader.
C30_TagsChecked ==
    \A i \in DOMAIN c_log :
       /\ c_log[i].ev = "rx_proto" => c_log[i].data[1] = MsgHello
       /\ c_log[i].ev = "rx_header" => c_log[i].data[1] = MsgAudioHeader

\* ===========================================================================
\* Claims about the WAV reader and the WAV sink (checked under SpecWav)
\* ===========================================================================

\* The latest read() call.
LatestRead == s_log[1]

\* C25: a read() with a buffer at least one sample wide returns a byte count
\* that is a multiple of the sample width and at most the buffer length,
\* namely that of as many whole samples as fit the buffer and remain in the
\* file; it is 0 exactly when no sample remains, and 0 when no file is open.
\* The bytes are the little-endian bytes of the samples at the read position.
C25_WholeSamplesRead ==
    ( /\ s_kind = "reader" /\ s_log # << >>
      /\ LatestRead.ev = "read" )
    => IF LatestRead.file = NoFile THEN LatestRead.data = << >>
       ELSE LET f      == LatestRead.file
                width  == ReadWidth(f.spec)
                n      == Len(LatestRead.data)
                remain == Len(f.samples) - LatestRead.pos
            IN LatestRead.buflen >= width =>
                  /\ n % width = 0
                  /\ n <= LatestRead.buflen
                  /\ n = 0 <=> remain = 0
                  /\ \/ n = width * remain
                     \/ n < width * remain /\ LatestRead.buflen - n < width
                  /\ s_pos = LatestRead.pos + n \div width
                  /\ \A k \in 1..(n \div width) :
                        SubSeq(LatestRead.data, (k - 1) * width + 1, k * width)
                           = ToLeBytes(f.samples[LatestRead.pos + k], width)

\* C25 witness: a read with a buffer that is no multiple of the sample width
\* returned two whole 16-bit samples and left a sample in the file.
C25_Witness ==
    /\ s_kind = "reader" /\ s_log # << >>
    /\ LatestRead.ev = "read"
    /\ LatestRead.file = src /\ ReadWidth(src.spec) = 2
    /\ LatestRead.buflen = 5
    /\ Len(LatestRead.data) = 4
    /\ s_pos < Len(src.samples)

\* The calls of finalize() in the sink's history: returned Ok, returned Err.
FinalizeCalls == { "finalize", "finalize_err" }

\* C26: the first finalize() after update_format closes the file with every
\* sample that was written, also when write() was never called (and then it
\* returns Ok); a finalize() with no writer (before update_format, or after
\* a finalize()) returns Ok and leaves the sink and the file as they are.
C26_FinalizedOnce ==
    \A i \in DOMAIN c_log :
       c_log[i].ev \in FinalizeCalls =>
          /\ c_log[i].before.state = "open" =>
                c_log[i].after = [c_log[i].before EXCEPT !.state = "closed"]
          /\ c_log[i].before.state # "open" =>
                /\ c_log[i].after = c_log[i].before
                /\ c_log[i].ev = "finalize"
          /\ (i > 1 /\ c_log[i - 1].ev = "update_format")
                => /\ c_log[i].after.state = "closed"
                   /\ c_log[i].ev = "finalize"
          /\ (i > 1 /\ c_log[i - 1].ev \in FinalizeCalls)
                => /\ c_log[i].after = c_log[i - 1].after
                   /\ c_log[i].ev = "finalize"

\* C26 witness: update_format, then finalize() without any write(), then a
\* second finalize().
C26_Witness ==
    /\ c_kind = "sink"
    /\ Len(c_log) = 3
    /\ c_log[1].ev = "update_format"
    /\ c_log[2].ev = "finalize"
    /\ c_log[3].ev = "finalize"
    /\ wav.state = "closed"

\* from_le_bytes of one chunk of the sink's sample width.
ChunkValue(chunk, width) ==
    IF width = 2 THEN I16FromLe(chunk) ELSE I32FromLe(chunk)

\* C27: a write(data) that returns Ok appends floor(len(data) / width)
\* samples to the file: the k-th is the little-endian value of the k-th
\* width-sized chunk of data.  The bytes behind the last whole chunk are
\* dropped: they change neither this write nor the next.
C27_WholeChunksWritten ==
    \A i \in DOMAIN c_log :
       c_log[i].ev = "write" =>
          LET width == WriteWidth(c_log[i].before.spec)
              data  == c_log[i].data
              old   == c_log[i].before.samples
              new   == c_log[i].after.samples
              n     == Len(data) \div width
          IN /\ Len(new) = Len(old) + n
             /\ SubSeq(new, 1, Len(old)) = old
             /\ \A k \in 1..n :
                   new[Len(old) + k]
                      = ChunkValue(SubSeq(data, (k - 1) * width + 1, k * width),
                                   width)
             /\ c_log[i].after = [c_log[i].before EXCEPT !.samples = new]

\* C27 witness: a 16-bit sink took a slice of three bytes and then a slice
\* of four: three samples are in the file.
C27_Witness ==
    /\ c_kind = "sink"
    /\ Len(c_log) = 3
    /\ c_log[2].ev = "write" /\ Len(c_log[2].data) = 3
    /\ c_log[3].ev = "write" /\ Len(c_log[3].data) = 4
    /\ WriteWidth(wav.spec) = 2
    /\ Len(wav.samples) = 3

\* ===========================================================================
\* Claims about the server's connections (checked under SpecRun)
\* ===========================================================================

\* The little-endian bytes of the first n samples of the source file.
RECURSIVE SourceBytes(_)
SourceBytes(n) ==
    IF n = 0 THEN << >>
    ELSE SourceBytes(n - 1) \o ToLeBytes(src.samples[n], ReadWidth(src.spec))

\* The connection c after n steps of its handler with no other connection.
RECURSIVE AloneRun(_, _, _)
AloneRun(c, n, f) ==
    IF n = 0 \/ HandlerEnded(c.h.pc) THEN c
    ELSE AloneRun(ConnStep(c, c.h.pos, f), n - 1, f)

\* What a handler's log says its reads returned, in order.
ReadsOf(log) ==
    LET rx == EventsIn(log, { "rx_hello", "rx_ok", "rx_start", "rx_bye",
                              "rx_bad" })
    IN [i \in DOMAIN rx |-> rx[i].data]

\* The payloads of the Data frames and RawData messages a handler has sent
\* since it last opened the file.
CurrentStream(log) ==
    LET opens == { i \in DOMAIN log : log[i].ev = "rx_start" }
        from  == IF opens = { } THEN 1 ELSE CHOOSE i \in opens :
                                              \A j \in opens : j <= i
        sent  == EventsIn(SubSeq(log, from, Len(log)), { "tx_data", "tx_raw" })
    IN IF sent = << >> THEN << >>
       ELSE LET RECURSIVE Cat(_)
                Cat(k) == IF k = 0 THEN << >> ELSE Cat(k - 1) \o sent[k].data
            IN Cat(Len(sent))

\* What holds of the connections in every state, whatever the handlers of
\* the other connections did.
HandlersApart ==
    /\ \A i \in DOMAIN conns :
          LET c == conns[i] IN
          /\ ReadsOf(c.h.log) = TakeN(c.peer, c.taken)
          /\ c.h.pc \in { "sending", "raw_sending", "stop" }
                => CurrentStream(c.h.log) = SourceBytes(c.h.pos)
          /\ [c EXCEPT !.alive = TRUE]
                = AloneRun(NewConn(c.peer), c.steps, src)
    /\ \A i, j \in DOMAIN conns :
          (conns[i].peer = conns[j].peer /\ conns[i].steps <= conns[j].steps)
             => IsPrefix(conns[i].h.log, conns[j].h.log)
    /\ \A i \in DOMAIN conns :
          (HandlerEnded(conns[i].h.pc) /\ listener = "accepting"
              /\ Len(conns) < MaxConns) => ENABLED Accept

\* What holds of every step in which a handler moves.
HandlerStepsAlone ==
    \A i \in DOMAIN conns :
       (i \in DOMAIN conns' /\ conns'[i].h # conns[i].h) =>
          /\ listener' = listener
          /\ src' = src
          /\ DOMAIN conns' = DOMAIN conns
          /\ \A j \in DOMAIN conns : j # i => conns'[j] = conns[j]

\* C23: a failure in one connection's handler (in the handshake, on a
\* protocol violation, on end of stream or on the file) ends that handler
\* only.  Each handler has read the bytes of its own peer, in order, and no
\* others; what it has sent of the stream in progress is the file from its
\* first sample up to the handler's own position; it is where it would be
\* after as many steps with the server to itself; of two connections whose
\* peers write the same, the one whose handler has taken fewer steps has
\* read and sent what the other had when it had taken as many, however the
\* two were interleaved with each other and with failing handlers.  A step
\* of a handler, a failing one included, changes no other connection and
\* leaves the listener as it is: an accepting listener with room accepts
\* the next connection whatever became of the handlers before.
C23_HandlersIsolated == []HandlersApart /\ [][HandlerStepsAlone]_vars

\* C23 witness: the first connection's handler ended on bytes it refused, and
\* the second connection's handler streamed two Data frames and ended with
\* the Bye exchange, the listener still accepting.
C23_Witness ==
    /\ Len(conns) >= 2
    /\ listener = "accepting"
    /\ conns[1].h.pc = "failed"
    /\ LastEv(conns[1].h.log) = "rx_bad"
    /\ conns[2].h.pc = "done" /\ conns[2].alive
    /\ Len(EventsIn(conns[2].h.log, { "tx_data" })) = 2

\* ===========================================================================
\* Claims about the stream (checked under Spec)
\* ===========================================================================

\* C31: in a session of ClientInterface against the server, once the client
\* has taken the audio header it has sent Ok for it, and the server sends a
\* Data frame of a stream only after it has read the Ok that follows the
\* stream's AudioHeader.
C31_OkAfterHeader ==
    HonestSession =>
       /\ \A i \in DOMAIN c_log :
             c_log[i].ev = "rx_header" =>
                \E j \in (i + 1)..Len(c_log) : c_log[j].ev = "tx_ok"
       /\ \A i \in DOMAIN s_log :
             s_log[i].ev = "tx_data" =>
                \E h \in 1..(i - 1) : \E k \in (h + 1)..(i - 1) :
                   /\ s_log[h].ev = "tx_header"
                   /\ s_log[k].ev = "rx_ok"
                   /\ \A m \in (h + 1)..(i - 1) : s_log[m].ev # "tx_header"

\* The index of the AudioHeader that opens the stream the i-th event of a
\* handler's log belongs to (0: none).
RECURSIVE StreamHead(_, _)
StreamHead(log, i) ==
    IF i = 0 THEN 0
    ELSE IF log[i].ev = "tx_header" THEN i
    ELSE StreamHead(log, i - 1)

\* The payloads of the Data frames sent between two events of a log,
\* concatenated.
RECURSIVE PayloadsBetween(_, _, _)
PayloadsBetween(log, from, to) ==
    IF from > to THEN << >>
    ELSE (IF log[from].ev = "tx_data" THEN log[from].data ELSE << >>)
         \o PayloadsBetween(log, from + 1, to)

\* C32: for every source file, a file with no sample and a file that fills
\* whole buffers included, read_and_send leaves its loop without an error and
\* the Data frames sent for one StartPlaying carry, concatenated, the
\* little-endian bytes of the samples read so far in file order, and of all the
\* samples once the loop is left; each stream is then closed by one
\* StopPlaying frame.
C32_StreamCarriesFile ==
    \A i \in DOMAIN s_log :
       LET h    == StreamHead(s_log, i)
           sent == PayloadsBetween(s_log, h + 1, i)
           last == i = Len(s_log)
       IN (h > 0 /\ s_log[i].ev \in { "rx_ok", "tx_data", "tx_stop", "read_err" }) =>
             /\ s_log[i].ev # "read_err"
             /\ s_log[i].ev = "tx_stop" =>
                   /\ sent = SourceBytes(Len(src.samples))
                   /\ \A k \in (h + 1)..(i - 1) : s_log[k].ev # "tx_stop"
             /\ (last /\ s_pc = "sending") => sent = SourceBytes(s_pos)
             /\ (last /\ s_pc = "stop") => sent = SourceBytes(Len(src.samples))
             /\ (last /\ s_pc = "request") => s_log[i].ev = "tx_stop"

\* C33: every Data frame the server sends (and every RawData message of
\* WavFileSender) carries at least one byte and at most a buffer of them, a
\* whole number of samples of the stream's format; one followed by another of
\* its stream carries a full buffer.
C33_WholeSampleFrames ==
    \A i \in DOMAIN s_log :
       s_log[i].ev \in { "tx_data", "tx_raw" } =>
          /\ Len(s_log[i].data) \in 1..BUFFER_LEN
          /\ Len(s_log[i].data) % ReadWidth(src.spec) = 0
          /\ (i < Len(s_log) /\ s_log[i + 1].ev \in { "tx_data", "tx_raw" })
                => Len(s_log[i].data) = BUFFER_LEN

\* C33 witness: a stream of 16-bit samples was sent as a full frame followed
\* by a short one.
C33_Witness ==
    \E i \in DOMAIN s_log :
       /\ i < Len(s_log)
       /\ s_log[i].ev = "tx_data" /\ Len(s_log[i].data) = BUFFER_LEN
       /\ s_log[i + 1].ev = "tx_data" /\ Len(s_log[i + 1].data) = 2

\* ===========================================================================
\* Claims about the stream's frames and the hello (checked under SpecCodec)
\* ===========================================================================

\* C34: the client's loop takes a frame for StopPlaying exactly when it is the
\* StopPlaying frame of the server: no chunk read_and_send sends, in any
\* format the reader handles and whatever the samples are, is taken for
\* StopPlaying, and the StopPlaying frame is not taken for audio.
C34_StopIsNeverAudio ==
    /\ k_out.op = "classify_data" => k_out.outcome = "data"
    /\ k_out.op = "classify_stop" => k_out.outcome = "stop"
    /\ k_out.op \in { "classify_data", "classify_stop" } =>
          (k_out.outcome = "stop" <=> k_out.bytes = MakeStopPlayingMessage)

\* C34 witness: a chunk whose first byte is the byte of StopPlaying was
\* classified, as audio.
C34_Witness ==
    /\ k_out.op = "classify_data"
    /\ k_out.bytes[1] = MsgStopPlaying
    /\ k_out.outcome = "data"

\* C35: the client's hello is the four bytes of the magic followed by the
\* byte of Hello, and check_client_hello_message returns true for it and for
\* no other byte string.
C35_HelloCheckedExactly ==
    k_out.op = "check_hello" =>
       /\ MakeClientHelloMessage = PROTOCOL_MAGIC \o << MsgHello >>
       /\ k_out.outcome = "true" <=> k_out.bytes = MakeClientHelloMessage

\* ===========================================================================
\* Claims about the request loop (checked under SpecRun)
\* ===========================================================================

\* The events a handler logs for one read of a request.
RequestEvents == { "rx_start", "rx_bye", "rx_bad", "rx_eof" }

\* C36: a handler that has sent StopPlaying has sent the whole file, from its
\* first sample, for that StartPlaying, the second of a connection as the
\* first; it then waits for a request on the same connection and takes a
\* StartPlaying, answered by send_wav_file with the AudioHeader (when there is
\* a file to open), or a Bye; a Bye read as request, after a stream or after
\* none, is answered by one Bye, the last thing the handler sends, and the
\* handler has ended.
C36_ServesAgain ==
    \A c \in DOMAIN conns :
       LET log == conns[c].h.log
           pc  == conns[c].h.pc
       IN \A i \in DOMAIN log :
             /\ log[i].ev = "tx_stop" =>
                   /\ PayloadsBetween(log, StreamHead(log, i) + 1, i)
                         = SourceBytes(Len(src.samples))
                   /\ IF i = Len(log) THEN pc = "request"
                      ELSE log[i + 1].ev \in RequestEvents
             /\ (s_kind = "run" /\ log[i].ev = "rx_start") =>
                   /\ i < Len(log)
                   /\ log[i + 1].ev \in { "tx_header", "open_err" }
                   /\ log[i + 1].ev = "open_err" <=> OpenFile(src) = NoFile
             /\ log[i].ev = "rx_bye" =>
                   /\ Len(log) = i + 1
                   /\ log[i + 1].ev = "tx_bye"
                   /\ pc = "done"
             /\ log[i].ev = "tx_bye" => (i > 1 /\ log[i - 1].ev = "rx_bye")

\* C36 witness: a handler streamed a file of more than a buffer twice on one
\* connection and then answered Bye.
C36_Witness ==
    \E c \in DOMAIN conns :
       LET log == conns[c].h.log
       IN /\ conns[c].h.pc = "done"
          /\ Len(SourceBytes(Len(src.samples))) > BUFFER_LEN
          /\ Cardinality({ i \in DOMAIN log : log[i].ev = "tx_stop" }) = 2
          /\ log[Len(log)].ev = "tx_bye"

\* ===========================================================================
\* Claims about the client's sinks (checked under Spec)
\* ===========================================================================

\* The events of the client's log that are calls of op on the k-th sink.
SinkCallsOf(k, op) ==
    { i \in DOMAIN c_log : c_log[i].ev = c_sinks[k] \o op }

\* Whether a playback sink is registered.
HasPlaySink == \E k \in DOMAIN c_sinks : c_sinks[k] = "play"

\* The client has left the stream at its end (StopPlaying read, or the end
\* of the byte stream) and end_audio is over: Bye was sent, or start_playing
\* has returned.
EndAudioOver ==
    /\ \E i \in DOMAIN c_log : c_log[i].ev \in { "finalize", "finalize_err" }
    /\ c_pc \in { "expect_bye", "done", "failed" }

\* C37: the client sends Bye only after finalize() has returned on every
\* registered sink; no sink is finalized twice, and once end_audio is over
\* every registered sink has been finalized exactly once; with a playback
\* sink the Bye is sent only after the wait of its finalize() for the
\* callback's signal has returned (the stream that had been started is
\* stopped), and while that wait goes on no Bye has been sent.
C37_ByeAfterFinalize ==
    c_kind = "client" =>
       /\ \A k \in DOMAIN c_sinks : Cardinality(SinkCallsOf(k, ".finalize")) <= 1
       /\ EndAudioOver =>
             \A k \in DOMAIN c_sinks :
                Cardinality(SinkCallsOf(k, ".finalize")) = 1
       /\ \A i \in DOMAIN c_log :
             c_log[i].ev = "tx_bye" =>
                /\ \A k \in DOMAIN c_sinks :
                      \E j \in SinkCallsOf(k, ".finalize") : j < i
                /\ HasPlaySink =>
                      /\ c_play.stream = "none"
                      /\ \E k \in DOMAIN c_sinks :
                            /\ c_sinks[k] = "play"
                            /\ \E x \in SinkCallsOf(k, ".write") :
                                  \E j \in SinkCallsOf(k, ".finalize") : x < j
       /\ c_pc = "end_audio" =>
             /\ HasPlaySink
             /\ \A i \in DOMAIN c_log : c_log[i].ev # "tx_bye"

\* C38: in a session of ClientInterface no sink gets update_format twice;
\* once the AudioHeader is taken every registered sink has got it once, after
\* the header; every write() on a sink comes after the sink's update_format;
\* and the file sink as it is before update_format refuses each payload
\* written in the session and holds no sample afterwards.
C38_FormatBeforeWrite ==
    c_kind = "client" =>
       \A k \in DOMAIN c_sinks :
          LET upd == SinkCallsOf(k, ".update_format")
              wr  == SinkCallsOf(k, ".write")
          IN /\ Cardinality(upd) <= 1
             /\ (\E h \in DOMAIN c_log : c_log[h].ev = "rx_header")
                   => Cardinality(upd) = 1
             /\ \A u \in upd : \E h \in 1..(u - 1) : c_log[h].ev = "rx_header"
             /\ \A x \in wr : \E u \in upd : u < x
             /\ \A x \in wr :
                   /\ ~WavWrite(NewWav, c_log[x].data).ok
                   /\ WavWrite(NewWav, c_log[x].data).wav = NewWav

\* ===========================================================================
\* Claims about waiting (checked under Spec)
\* ===========================================================================

\* The steps the server handler takes.
ServerMoves ==
    \/ ServerExpectClientHello
    \/ ServerReadsEof
    \/ ServerExpectOk
    \/ ServerExpectMessageType
    \/ ServerStreamExpectOk
    \/ ServerReadAndSend
    \/ ServerSendStop
    \/ SenderReadAndSend

\* The steps ClientInterface takes.
ClientMoves ==
    \/ ClientSendHello
    \/ ClientReadsEof
    \/ ClientExpectProtocolInfo
    \/ ClientSendStartPlaying
    \/ ClientUpdateAudioHeader
    \/ ClientReadsPart
    \/ ClientNextFrame
    \/ ClientStreamEnds
    \/ ClientFinalizeReturns
    \/ ClientExpectBye

\* C39: a side that waits for a control message (the handler for Hello, Ok or
\* a request, the client for the protocol info, the AudioHeader or Bye) while
\* its peer stays connected and sends nothing has a step of its own left, the
\* one that gives the peer up after the last read attempt: it does not depend
\* on the peer to leave the wait.
C39_WaitIsBounded ==
    /\ (s_kind \in Handlers \cup { "common" } /\ ServerWaits)
          => ENABLED ServerMoves
    /\ (c_kind = "client" /\ ClientWaits /\ c_pc # "recv") => ENABLED ClientMoves

====
